---- MODULE Spec2Model ----
(***************************************************************************)
(* A model of package outflux of nilium/dagr: the buffer chain             *)
(* (outflux/lockbuffer.go), the delivery proxy (outflux/outflux.go) and    *)
(* its options (RetryLimit, RequestLimit, Timeout, FlushSize, backoff).    *)
(*                                                                         *)
(* Goroutines are processes with a program counter; one action is one      *)
(* step between two synchronisation points (a lock operation, a channel    *)
(* operation, an atomic, a context read).  Steps that touch only a         *)
(* goroutine's locals are folded into the next shared step.                *)
(***************************************************************************)
EXTENDS Integers, Sequences, FiniteSets, TLC

\* ---------------------------------------------------------------- bounds
NumWriters == 2
NumBuffers == 2
MaxOps == 2
MaxHandleWrites == 2
MaxChunk == 1
MaxFlushes == 2
NumFlushers == 1
MaxTicks == 1
MaxRetryLimit == 1
FlushThreshold == 2
MaxStarts == 2
\* package dagr: the PointSet
NumCallers == 2
MaxCalls == 2
NumIdents == 2
MaxValue == 1
MaxWriteTos == 1
\* package dagr: one field and its adders
NumAdders == 3
MaxDelta == 2
MaxInitial == 1
\* package dagr: one Point and its users
NumPointUsers == 2
MaxPointOps == 3
NumNames == 2
\* package dagr: the line encoder
MaxClock == 2
MaxEncCalls == 2
MaxBatch == 3

\* ------------------------------------------------------ program constants
DefaultRetries == 3
BackoffBase == 8
BackoffStep == 3
BackoffMax == 30
\* Bytes the line encoder writes or escapes (ASCII codes).
Newline == 10
Space == 32
Comma == 44
DigitZero == 48
Equals == 61
LetterF == 70
LetterT == 84
Backslash == 92
LetterA == 97
LetterI == 105

Writers == 1..NumWriters
Slots == 1..NumBuffers
Flushers == 1..NumFlushers

VARIABLES
    all,        \* bufferchain.all: slot -> contents of the sub-buffer
    buffers,    \* bufferchain.buffers: the free-slot channel (FIFO of slots)
    sz,         \* bufferchain.sz: the aggregate byte counter
    m,          \* bufferchain.m: the chain-wide RWMutex
    wr,         \* the writer goroutines
    opts,       \* the options newProxy was given
    cfg,        \* the Proxy's configuration fields, fixed by newProxy
    env,        \* what surrounds the proxy: the Sender's behaviour, the callers
    flushlock,  \* Proxy.flushlock: 0, or the writer holding it
    errch,      \* the reply channel (capacity 1) of each requester's flushop
    dr,         \* the drainer goroutine (sendEveryInterval)
    tasks,      \* the send goroutines swapAndSend has spawned, in swap order
    ctx,        \* the state of every context
    fl,         \* the goroutines calling Proxy.Flush
    reqheld,    \* the number of values in the requestQueue channel
    drained,    \* history: the value returned by each bufferchain.flush
    closedLog,  \* history: the handles closed so far, with the flush count then
    cancelLog,  \* history: per context, the send goroutines when it was cancelled
    heap,       \* package dagr: the field instances allocated so far
    ps,         \* the PointSet: its allocator, its metrics map, its RWMutex
    cl,         \* the goroutines calling PointSet.FieldsForID
    psHist,     \* history: allocator calls, installed points, returned fields
    psOut,      \* the outputs of PointSet.WriteTo, in order
    fld,        \* one Int, Float or Counter and the goroutines adding to it
    point,      \* one Point, its RWMutex and the goroutines using it
    enc         \* the line encoder: measurements, clock, destination, last call

chainVars == <<all, buffers, sz, m>>
histVars == <<drained, closedLog, cancelLog>>
\* The state of package outflux.
outfluxVars == <<all, buffers, sz, m, wr, opts, cfg, env, flushlock, errch, dr, tasks,
                 ctx, fl, reqheld, drained, closedLog, cancelLog>>
\* The state of package dagr, which package outflux never touches.
dagrVars == <<heap, ps, cl, psHist, psOut, fld, point, enc>>
\* What no action of the PointSet changes.
psOthers == <<outfluxVars, fld, point, enc>>
\* What no action on the lone field changes.
fldOthers == <<outfluxVars, heap, ps, cl, psHist, psOut, point, enc>>
\* What no action on the lone Point changes.
ptOthers == <<outfluxVars, heap, ps, cl, psHist, psOut, fld, enc>>
\* What no action of the line encoder changes.
encOthers == <<outfluxVars, heap, ps, cl, psHist, psOut, fld, point>>
\* What no action of package outflux changes: the options, and package dagr.
setup == <<opts, dagrVars>>
proxyVars == <<setup, cfg, env, flushlock, errch, dr, tasks, ctx, fl, reqheld>>
vars == <<all, buffers, sz, m, wr, opts, cfg, env, flushlock, errch, dr, tasks, ctx,
          fl, reqheld, drained, closedLog, cancelLog, heap, ps, cl, psHist, psOut, fld, point,
          enc>>

\* ------------------------------------------------------------ sequences
RECURSIVE Concat(_, _)
\* The concatenation of f[1] \o ... \o f[n].
Concat(f, n) == IF n = 0 THEN <<>> ELSE Concat(f, n - 1) \o f[n]

\* s occurs in t as a contiguous run.
IsInfix(s, t) ==
    \E i \in 0..(Len(t) - Len(s)) : \A j \in 1..Len(s) : t[i + j] = s[j]

\* How many times x occurs in the sequence s.
Occurs(x, s) == Cardinality({i \in 1..Len(s) : s[i] = x})

\* The n bytes a writer w appends when it has already written k bytes.
Chunk(w, k, n) == [i \in 1..n |-> <<w, k + i>>]

\* ------------------------------------------------------------- contexts
\* context.Background(), the context given to Start, the context the
\* drainer makes for its shutdown flush, and the context of each Flush call.
Background == <<"background", 0>>
StartCtx == <<"start", 0>>
ShutdownCtx == <<"shutdown", 0>>
FlushCtx(c) == <<"flush", c>>
\* The context given to the k-th call of Start; StartCtx is the first's.
StartCtxOf(k) == <<"start", k - 1>>
CtxIds ==
    {Background, StartCtx, ShutdownCtx} \cup {FlushCtx(c) : c \in Flushers}
      \cup {StartCtxOf(k) : k \in 1..MaxStarts}

\* Errors are pairs: nil, a context's error, or the error of a Send attempt.
Nil == <<"nil", 0>>
Canceled == <<"Canceled", 0>>
SendErr(i) == <<"SendErr", i>>

\* ctx.Err() and ctx.Done().
ctxErr(c) == IF ctx[c] = "live" THEN Nil ELSE <<ctx[c], 0>>
ctxDone(c) == ctx[c] # "live"

\* -------------------------------------------------------------- options
\* Timeout.configure and RetryLimit.configure clamp at 0.
Timeout_configure(d) == IF d < 0 THEN 0 ELSE d

RetryLimit_configure(r) == IF r < 0 THEN 0 ELSE r

noRequestLimit == [kind |-> "noRequestLimit", cap |-> 0]

\* RequestLimit(n): the queue starts as noRequestLimit and is replaced by
\* a channel of capacity n when n <= 0.
RequestLimit(n) ==
    IF n <= 0 THEN [kind |-> "requestQueue", cap |-> n] ELSE noRequestLimit

\* DefaultBackoff, in seconds.
DefaultBackoff(retry, maxRetries) ==
    LET next == BackoffBase + (retry - 1) * BackoffStep
    IN  IF next > BackoffMax THEN BackoffMax ELSE next

\* Option values: a field with set = FALSE leaves the default.
NoOption == [set |-> FALSE, n |-> 0]
Option(n) == [set |-> TRUE, n |-> n]
NoOptions == [flushSize |-> NoOption, timeout |-> NoOption,
              retryLimit |-> NoOption, requestLimit |-> NoOption,
              backoff |-> NoOption]

\* newProxy: the defaults, then each option's configure.
newProxy(o) ==
    [flushSize |-> IF o.flushSize.set THEN o.flushSize.n ELSE 0,
     timeout   |-> IF o.timeout.set THEN Timeout_configure(o.timeout.n) ELSE 0,
     retries   |-> IF o.retryLimit.set THEN RetryLimit_configure(o.retryLimit.n)
                   ELSE RetryLimit_configure(DefaultRetries),
     requests  |-> IF o.requestLimit.set THEN RequestLimit(o.requestLimit.n)
                   ELSE noRequestLimit,
     backoff   |-> o.backoff]

\* make(chan struct{}, n) panics for n < 0: no proxy is ever built.
Constructed == ~(cfg.requests.kind = "requestQueue" /\ cfg.requests.cap < 0)

\* Proxy.delayfunc: FixedBackoff(d) when given, DefaultBackoff otherwise.
delayfunc(retry, maxRetries) ==
    IF cfg.backoff.set THEN cfg.backoff.n ELSE DefaultBackoff(retry, maxRetries)

\* taskqueue.begin blocks until the channel takes one more value; a
\* noRequestLimit never blocks.
beginReady ==
    \/ cfg.requests.kind = "noRequestLimit"
    \/ reqheld < cfg.requests.cap

requests_begin == IF cfg.requests.kind = "requestQueue" THEN reqheld + 1 ELSE reqheld
\* requestQueue.end, had it left the value in the channel.
requests_end_Keep == reqheld
requests_end == IF cfg.requests.kind = "requestQueue" THEN reqheld - 1 ELSE reqheld

\* ================================================================ package dagr
\* ------------------------------------------------------------ Go maps, strings
\* A Go map is nil or holds the function kv; len of a nil map is 0.
NilMap == [isnil |-> TRUE, kv |-> <<>>]
MkMap(f) == [isnil |-> FALSE, kv |-> f]
len(mp) == IF mp.isnil THEN 0 ELSE Cardinality(DOMAIN mp.kv)
\* mp[name] = value on a map that is not nil.
MapSet(f, name, value) ==
    [n \in DOMAIN f \cup {name} |-> IF n = name THEN value ELSE f[n]]

\* A string value, and the identifiers the callers pass to FieldsForID.
Str(s) == <<s, 0>>
Ident(i) == <<"/api/v1", i>>
Idents == {Ident(i) : i \in 1..NumIdents}
Callers == 1..NumCallers

\* ------------------------------------------------------------------- fields
\* A field instance is a cell of the heap; a Fields map holds references to
\* cells.  new(Int), new(Float): a fresh cell holding zero.
newField(type, v) == [type |-> type, v |-> v]

\* Int.Dup, Float.Dup, String.Dup with the reference and the heap shared:
\* no new instance.
Field_Dup_Shared(ref, h) == [ref |-> ref, heap |-> h]

\* Int.Dup, Float.Dup, String.Dup: a new instance holding the sampled value.
Field_Dup(ref, h) == [ref |-> Len(h) + 1, heap |-> Append(h, h[ref])]

\* The loop of Fields.Dup over the names not yet copied.
RECURSIVE Fields_Dup_range(_, _, _, _, _)
Fields_Dup_range(kv, todo, deep, d, h) ==
    IF todo = {}
    THEN [fields |-> MkMap(d), heap |-> h]
    ELSE LET name == CHOOSE n \in todo : TRUE
             r == IF deep THEN Field_Dup(kv[name], h)
                          ELSE [ref |-> kv[name], heap |-> h]
         IN  Fields_Dup_range(kv, todo \ {name}, deep,
                              MapSet(d, name, r.ref), r.heap)

\* Fields.Dup(deep): nil for nil, otherwise a new map, of new instances if
\* deep and of the same instances if not.
Fields_Dup(fs, deep, h) ==
    IF fs.isnil
    THEN [fields |-> NilMap, heap |-> h]
    ELSE Fields_Dup_range(fs.kv, DOMAIN fs.kv, deep, <<>>, h)

\* Tags.Dup: nil for nil, otherwise a copy.
Tags_Dup(t) == IF t.isnil THEN NilMap ELSE MkMap(t.kv)

\* --------------------------------------------------------------- allocators
\* What AllocatePoint hands back: it panicked, or key, tags, fields and the
\* heap with the instances it made.
Panicked(h) ==
    [panic |-> TRUE, key |-> "", tags |-> NilMap, fields |-> NilMap, heap |-> h]
Allocated(key, tags, fields, h) ==
    [panic |-> FALSE, key |-> key, tags |-> tags, fields |-> fields, heap |-> h]

\* StaticPointAllocator.AllocatePoint.  With an IdentifierTag, tags is
\* s.Tags.Dup(), which is nil for nil Tags: the assignment then panics.
Static_AllocatePoint(s, identifier, h) ==
    LET tags == IF s.IdentifierTag # ""
                THEN MkMap(MapSet(Tags_Dup(s.Tags).kv, s.IdentifierTag, identifier))
                ELSE s.Tags
        dup == Fields_Dup(s.Fields, TRUE, h)
        base == IF dup.fields.isnil THEN <<>> ELSE dup.fields.kv
        identField == Len(dup.heap) + 1
    IN  IF s.IdentifierTag # "" /\ Tags_Dup(s.Tags).isnil
        THEN Panicked(h)
        ELSE IF s.IdentifierField # ""
        THEN Allocated(s.Key, tags,
                       MkMap(MapSet(base, s.IdentifierField, identField)),
                       Append(dup.heap, newField("String", identifier)))
        ELSE Allocated(s.Key, tags, dup.fields, dup.heap)

\* The tags and fields the allocator of TestPointSetAllocator builds.
testTags(identifier) ==
    MkMap(MapSet(MapSet(MapSet(<<>>, "host", Str("example.local")),
                        "pid", Str("1234")), "path", identifier))
testFields(h) ==
    MkMap(MapSet(MapSet(<<>>, "count", Len(h) + 1), "time_taken", Len(h) + 2))
testHeap(h) == h \o <<newField("Int", 0), newField("Float", 0)>>

\* PointAllocFunc.AllocatePoint: the function decides per identifier; it
\* accepts as the test's allocator does, or declines with an empty key, with
\* no fields, or with both.
Func_AllocatePoint(fn, identifier, h) ==
    CASE fn.answer[identifier] = "accept" ->
           Allocated("http_request", testTags(identifier), testFields(h), testHeap(h))
      [] fn.answer[identifier] = "noKey" ->
           Allocated("", testTags(identifier), testFields(h), testHeap(h))
      [] fn.answer[identifier] = "noFields" ->
           Allocated("http_request", testTags(identifier), NilMap, h)
      [] OTHER ->
           Allocated("", NilMap, NilMap, h)

AllocatePoint(allocator, identifier, h) ==
    IF allocator.kind = "static"
    THEN Static_AllocatePoint(allocator, identifier, h)
    ELSE Func_AllocatePoint(allocator, identifier, h)

\* ----------------------------------------------------------------- PointSet
\* NewPointSet: the allocator, an empty metrics map, an unlocked RWMutex (w
\* the caller holding its writer mutex, readers the read locks held).
NewPointSet(allocator) ==
    [allocator |-> allocator, metrics |-> <<>>, w |-> 0, readers |-> 0]

\* taggedMetric.GetFields: fields.Dup(false), the same instances.
GetFields(tm, h) == Fields_Dup(tm.fields, FALSE, h).fields

\* alloc's test of the allocator's answer, on the fields alone.
declined_FieldsOnly(key, fields) == len(fields) = 0

\* alloc: key == "" || len(fields) == 0.
declined(key, fields) == key = "" \/ len(fields) = 0

\* alloc's test under the lock, never finding the point.
allocFound_Never(ident, metrics) == FALSE

\* alloc: if m, ok := p.metrics[ident]; ok.
allocFound(ident, metrics) == ident \in DOMAIN metrics

\* NewPoint and Point.Compiled, as alloc stores them: the key, the tags and
\* the field instances the allocator returned.
NewPoint(key, tags, fields) ==
    [key |-> key, tags |-> IF tags.isnil THEN <<>> ELSE tags.kv, fields |-> fields]

\* A goroutine that calls FieldsForID: where it is, the identifier it asks
\* for, what the call returned and which return statement it took, the last
\* fields it got, its calls so far.
idleCaller ==
    [pc |-> "idle", ident |-> Ident(1), ret |-> NilMap, via |-> "none",
     held |-> NilMap, calls |-> 0]

noHist ==
    [allocCalls |-> [id \in Idents |-> 0],
     installs |-> [id \in Idents |-> 0],
     asked |-> [id \in Idents |-> 0],
     got |-> {}]

\* The state with the PointSet p, nobody calling it yet.
InitPointSet(p, h) ==
    /\ heap = h
    /\ ps = p
    /\ cl = [c \in Callers |-> idleCaller]
    /\ psHist = noHist
    /\ psOut = <<>>

\* A program that uses no PointSet.
NoAllocator == [kind |-> "none"]
NoPointSet == InitPointSet(NewPointSet(NoAllocator), <<>>)

\* FieldsForID is called.
FieldsForID(c, id) ==
    /\ ps.allocator.kind # "none"
    /\ cl[c].pc = "idle"
    /\ cl[c].calls < MaxCalls
    /\ cl' = [cl EXCEPT ![c].pc = "lookup", ![c].ident = id, ![c].ret = NilMap]
    /\ UNCHANGED <<psOthers, heap, ps, psHist, psOut>>

\* lookup: p.m.RLock(), which waits while a writer holds or awaits the lock.
lookup_RLock(c) ==
    /\ cl[c].pc = "lookup"
    /\ ps.w = 0
    /\ ps' = [ps EXCEPT !.readers = @ + 1]
    /\ cl' = [cl EXCEPT ![c].pc = "lookup_locked"]
    /\ UNCHANGED <<psOthers, heap, psHist, psOut>>

\* FieldsForID returns ret for id, found by lookup or by alloc.
returned(c, id, ret, via) ==
    /\ cl' = [cl EXCEPT ![c].pc = "done", ![c].ret = ret, ![c].via = via]
    /\ psHist' = [psHist EXCEPT !.got = @ \cup {[id |-> id, ret |-> ret]}]

\* lookup: the map read and the deferred RUnlock; FieldsForID returns the
\* fields of the point found, or goes on to alloc.
lookup_Return(c) ==
    /\ cl[c].pc = "lookup_locked"
    /\ ps' = [ps EXCEPT !.readers = @ - 1]
    /\ IF cl[c].ident \in DOMAIN ps.metrics
       THEN returned(c, cl[c].ident, GetFields(ps.metrics[cl[c].ident], heap), "lookup")
       ELSE /\ cl' = [cl EXCEPT ![c].pc = "alloc"]
            /\ UNCHANGED psHist
    /\ UNCHANGED <<psOthers, heap, psOut>>

\* alloc: p.m.Lock(), first the writer mutex, after which readers wait.
alloc_Lock(c) ==
    /\ cl[c].pc = "alloc"
    /\ ps.w = 0
    /\ ps' = [ps EXCEPT !.w = c]
    /\ cl' = [cl EXCEPT ![c].pc = "alloc_wait"]
    /\ UNCHANGED <<psOthers, heap, psHist, psOut>>

\* alloc: p.m.Lock(), then the wait for the readers to leave.
alloc_Acquire(c) ==
    /\ cl[c].pc = "alloc_wait"
    /\ ps.readers = 0
    /\ cl' = [cl EXCEPT ![c].pc = "alloc_locked"]
    /\ UNCHANGED <<psOthers, heap, ps, psHist, psOut>>

\* alloc under the lock, with the deferred Unlock: the point found, or the
\* allocator called and its point stored unless it declined or the point
\* has no compiled form (no fields).  A panic of the allocator or of
\* NewPoint (empty key) leaves through the Unlock too.
\* The instances of a declined answer are garbage and leave the heap.
alloc_Body(c) ==
    /\ cl[c].pc = "alloc_locked"
    /\ LET id == cl[c].ident
           a == AllocatePoint(ps.allocator, id, heap)
           called == [psHist EXCEPT !.allocCalls[id] = @ + 1]
       IN  IF allocFound(id, ps.metrics)
           THEN /\ returned(c, id, GetFields(ps.metrics[id], heap), "alloc found")
                /\ ps' = [ps EXCEPT !.w = 0]
                /\ heap' = heap
           ELSE IF a.panic
           THEN /\ cl' = [cl EXCEPT ![c].pc = "panicked"]
                /\ psHist' = called
                /\ ps' = [ps EXCEPT !.w = 0]
                /\ heap' = heap
           ELSE IF declined(a.key, a.fields)
           THEN /\ cl' = [cl EXCEPT ![c].pc = "done", ![c].ret = NilMap,
                                    ![c].via = "declined"]
                /\ psHist' = [called EXCEPT !.got = @ \cup {[id |-> id, ret |-> NilMap]}]
                /\ ps' = [ps EXCEPT !.w = 0]
                /\ heap' = heap
           ELSE IF a.key = "" \/ len(a.fields) = 0
           THEN /\ cl' = [cl EXCEPT ![c].pc = IF a.key = "" THEN "panicked" ELSE "done",
                                    ![c].ret = NilMap, ![c].via = "not compiled"]
                /\ psHist' = IF a.key = "" THEN called
                             ELSE [called EXCEPT !.got = @ \cup {[id |-> id, ret |-> NilMap]}]
                /\ ps' = [ps EXCEPT !.w = 0]
                /\ heap' = heap
           ELSE LET pt == NewPoint(a.key, a.tags, a.fields)
                IN  /\ cl' = [cl EXCEPT ![c].pc = "done", ![c].via = "alloc new",
                                        ![c].ret = GetFields(pt, a.heap)]
                    /\ psHist' = [called EXCEPT
                                    !.installs[id] = @ + 1,
                                    !.got = @ \cup {[id |-> id, ret |-> GetFields(pt, a.heap)]}]
                    /\ ps' = [ps EXCEPT !.w = 0, !.metrics = MapSet(@, id, pt)]
                    /\ heap' = a.heap
    /\ UNCHANGED <<psOthers, psOut>>

\* The caller has its answer and keeps the fields it got (nil: none).
FieldsForID_Return(c) ==
    /\ cl[c].pc = "done"
    /\ cl' = [cl EXCEPT ![c].pc = "idle", ![c].calls = @ + 1,
                        ![c].held = cl[c].ret]
    /\ psHist' = [psHist EXCEPT !.asked[cl[c].ident] = @ + 1]
    /\ UNCHANGED <<psOthers, heap, ps, psOut>>

\* The numeric fields a caller holds.
Adders(c) ==
    IF cl[c].held.isnil THEN {}
    ELSE {n \in DOMAIN cl[c].held.kv : heap[cl[c].held.kv[n]].type # "String"}

\* Int.Add, Float.Add on a field the caller holds: an atomic add of 1.
Field_Add(c, name) ==
    /\ cl[c].pc = "idle"
    /\ name \in Adders(c)
    /\ heap[cl[c].held.kv[name]].v < MaxValue
    /\ heap' = [heap EXCEPT ![cl[c].held.kv[name]].v = @ + 1]
    /\ UNCHANGED <<psOthers, ps, cl, psHist, psOut>>

\* Int.Set, Float.Set on a field the caller holds: an atomic store.
Field_Set(c, name, new) ==
    /\ cl[c].pc = "idle"
    /\ name \in Adders(c)
    /\ heap[cl[c].held.kv[name]].v # new
    /\ heap' = [heap EXCEPT ![cl[c].held.kv[name]].v = new]
    /\ UNCHANGED <<psOthers, ps, cl, psHist, psOut>>

\* compiledPoint.WriteTo for the point stored under id: the key and tags of
\* the prefix, then the value each field holds now.
lineOf(id, tm, h) ==
    [ident |-> id, key |-> tm.key, tags |-> tm.tags,
     fields |-> [n \in DOMAIN tm.fields.kv |-> h[tm.fields.kv[n]].v]]

\* PointSet.WriteTo: under the read lock, one line per stored point.
PointSet_WriteTo ==
    /\ ps.allocator.kind # "none"
    /\ Len(psOut) < MaxWriteTos
    /\ ps.w = 0
    /\ psOut' = Append(psOut, {lineOf(id, ps.metrics[id], heap) : id \in DOMAIN ps.metrics})
    /\ UNCHANGED <<psOthers, heap, ps, cl, psHist>>

\* ------------------------------------------- one field and its concurrent adders
Adders_ == 1..NumAdders
Deltas == (0 - 1)..MaxDelta
FieldKinds == {"Int", "Float", "Counter"}

RECURSIVE SumSeq(_)
SumSeq(s) == IF s = <<>> THEN 0 ELSE Head(s) + SumSeq(Tail(s))

\* A field of the given kind holding initial, and one goroutine per delta
\* about to call Add(delta).  order is the history of the adds that took
\* effect, reads the history of the values sampled (with the adds so far).
newLoneField(kind, initial, deltas) ==
    [kind |-> kind, initial |-> initial, value |-> initial,
     ad |-> [a \in Adders_ |-> [pc |-> "call", old |-> 0, d |-> deltas[a]]],
     order |-> <<>>, reads |-> {}]

\* A program that shares no field between goroutines.
NoField == fld = [kind |-> "none"]

\* A compare-and-swap that stores whatever the word holds now.
CompareAndSwap_Always(word, old) == TRUE

\* atomic.CompareAndSwapUint64(p, old, new): swaps if *p == old.
CompareAndSwap(word, old) == word = old

\* Int.Add: atomic.AddInt64.
Int_Add(a) ==
    /\ fld.kind = "Int"
    /\ fld.ad[a].pc = "call"
    /\ fld' = [fld EXCEPT !.value = @ + fld.ad[a].d,
                          !.order = Append(@, fld.ad[a].d),
                          !.ad[a].pc = "done"]
    /\ UNCHANGED fldOthers

\* Float.tryAdd, Counter.Add: old := atomic.LoadUint64(p).
tryAdd_Load(a) ==
    /\ fld.kind \in {"Float", "Counter"}
    /\ fld.ad[a].pc = "call"
    /\ fld' = [fld EXCEPT !.ad[a].pc = "loaded", !.ad[a].old = fld.value]
    /\ UNCHANGED fldOthers

\* Float.tryAdd, Counter.Add: the CompareAndSwap of old+incr for old; Add
\* returns if it swapped and loops if not.
tryAdd_CAS(a) ==
    /\ fld.kind \in {"Float", "Counter"}
    /\ fld.ad[a].pc = "loaded"
    /\ fld' = IF CompareAndSwap(fld.value, fld.ad[a].old)
              THEN [fld EXCEPT !.value = fld.ad[a].old + fld.ad[a].d,
                               !.order = Append(@, fld.ad[a].d),
                               !.ad[a].pc = "done"]
              ELSE [fld EXCEPT !.ad[a].pc = "call"]
    /\ UNCHANGED fldOthers

\* Int.sample, Float.sample, Counter.Get: an atomic load by a reader.
Field_sample ==
    /\ fld.kind # "none"
    /\ fld' = [fld EXCEPT !.reads = @ \cup {[v |-> fld.value, n |-> Len(fld.order)]}]
    /\ UNCHANGED fldOthers

\* ------------------------------------------------- one Point and its users
\* Names are strings in their byte order: Name 0 is the empty string, which
\* sorts first.  A tag value 0 is the empty string, a field value 0 is nil.
Names == 0..NumNames
PointUsers == 1..NumPointUsers
ReadOps == {"WriteTo", "Tags", "Fields", "Compiled", "MarshalJSON"}
WriteOps == {"SetTag", "SetField", "RemoveTag", "RemoveField"}

\* sort.SearchStrings: the binary search for the first index (from 0) whose
\* element is >= str, n if none.
RECURSIVE SearchStrings_loop(_, _, _, _)
SearchStrings_loop(slice, str, lo, hi) ==
    IF lo >= hi THEN lo
    ELSE LET h == (lo + hi) \div 2
         IN  IF slice[h + 1] >= str
             THEN SearchStrings_loop(slice, str, lo, h)
             ELSE SearchStrings_loop(slice, str, h + 1, hi)
SearchStrings(slice, str) == SearchStrings_loop(slice, str, 0, Len(slice))

\* insertOrderedString that always appends.
insertOrderedString_Append(slice, str) == Append(slice, str)

\* insertOrderedString: str goes in at the index SearchStrings found, the
\* elements from there on move up by one.
insertOrderedString(slice, str) ==
    LET n == Len(slice)
        idx == SearchStrings(slice, str)
    IN  IF idx < n
        THEN SubSeq(slice, 1, idx) \o <<str>> \o SubSeq(slice, idx + 1, n)
        ELSE Append(slice, str)

\* The loop of RemoveTag and RemoveField: the first element equal to name
\* leaves the slice.
removeOrdered(slice, name) ==
    IF \E i \in 1..Len(slice) : slice[i] = name
    THEN LET i == CHOOSE j \in 1..Len(slice) :
                    slice[j] = name /\ \A k \in 1..(j - 1) : slice[k] # name
         IN  SubSeq(slice, 1, i - 1) \o SubSeq(slice, i + 1, Len(slice))
    ELSE slice

\* delete(map, name).
MapDelete(f, name) == [n \in DOMAIN f \ {name} |-> f[n]]

\* Point.addTag, Point.addField on a map and its ordered names.
addOrdered(mo, name, value) ==
    [map |-> MapSet(mo.map, name, value),
     order |-> IF name \in DOMAIN mo.map THEN mo.order
               ELSE insertOrderedString(mo.order, name)]

\* The body of RemoveTag and RemoveField under the lock.
removeNamed(mo, name) ==
    IF name \notin DOMAIN mo.map THEN mo
    ELSE [map |-> MapDelete(mo.map, name), order |-> removeOrdered(mo.order, name)]

\* NewPoint's loops: addTag or addField for each entry, in the order the
\* map iteration happens to take.
RECURSIVE addAll(_, _)
addAll(mo, entries) ==
    IF entries = <<>> THEN mo
    ELSE addAll(addOrdered(mo, Head(entries), 1), Tail(entries))

idlePointUser == [pc |-> "idle", op |-> "none", name |-> 0, value |-> 0]

\* NewPoint with the tags and fields given in map iteration order; nobody
\* uses the point yet.  done is the history of the SetTag and SetField calls
\* that were removals.
NewLonePoint(tagEntries, fieldEntries) ==
    [exists |-> TRUE,
     tags |-> addAll([map |-> <<>>, order |-> <<>>], tagEntries),
     fields |-> addAll([map |-> <<>>, order |-> <<>>], fieldEntries),
     readers |-> 0, writer |-> 0,
     g |-> [u \in PointUsers |-> idlePointUser],
     calls |-> 0, done |-> {}]

\* A program that uses no Point of its own.
NoPoint == point = [exists |-> FALSE]

\* What a call does once it holds the lock, if anything: SetTag with an
\* empty value is RemoveTag, SetField with nil is RemoveField, and an empty
\* name makes all four return at once.
effectiveOp(op, name, value) ==
    IF name = 0 THEN "none"
    ELSE IF op = "SetTag" /\ value = 0 THEN "RemoveTag"
    ELSE IF op = "SetField" /\ value = 0 THEN "RemoveField"
    ELSE op

\* A goroutine calls a method of the point.
Point_Call(u, op, name, value) ==
    /\ point.exists
    /\ point.g[u].pc = "idle"
    /\ point.calls < MaxPointOps
    /\ point' = [point EXCEPT
                !.calls = @ + 1,
                !.g[u] = IF op \in ReadOps
                         THEN [pc |-> "rlock", op |-> op, name |-> 0, value |-> 0]
                         ELSE IF effectiveOp(op, name, value) = "none"
                         THEN idlePointUser
                         ELSE [pc |-> "lock", op |-> effectiveOp(op, name, value),
                               name |-> name, value |-> value],
                !.done = IF op \in WriteOps /\ name # 0 /\ value = 0
                            /\ op \in {"SetTag", "SetField"}
                         THEN @ \cup {<<op, "removes">>} ELSE @]
    /\ UNCHANGED ptOthers

\* p.m.Lock() of SetTag, SetField, RemoveTag, RemoveField.
Point_Lock(u) ==
    /\ point.exists
    /\ point.g[u].pc = "lock"
    /\ point.readers = 0 /\ point.writer = 0
    /\ point' = [point EXCEPT !.writer = u, !.g[u].pc = "writing"]
    /\ UNCHANGED ptOthers

\* The body of the write under the lock, and the deferred Unlock.
Point_Write(u) ==
    /\ point.exists
    /\ point.g[u].pc = "writing"
    /\ LET c == point.g[u]
       IN  point' = [point EXCEPT
                    !.tags = IF c.op = "SetTag" THEN addOrdered(@, c.name, c.value)
                             ELSE IF c.op = "RemoveTag" THEN removeNamed(@, c.name)
                             ELSE @,
                    !.fields = IF c.op = "SetField" THEN addOrdered(@, c.name, c.value)
                               ELSE IF c.op = "RemoveField" THEN removeNamed(@, c.name)
                               ELSE @,
                    !.writer = 0,
                    !.g[u] = idlePointUser]
    /\ UNCHANGED ptOthers

\* p.m.RLock() of WriteTo, Tags, Fields, Compiled and MarshalJSON.  The
\* first three and MarshalJSON defer the RUnlock and read; Compiled has its
\* RUnlock as the next statement.
Point_RLock(u) ==
    /\ point.exists
    /\ point.g[u].pc = "rlock"
    /\ point.writer = 0
    /\ point' = [point EXCEPT !.readers = @ + 1,
                        !.g[u].pc = IF point.g[u].op = "Compiled" THEN "runlock"
                                    ELSE "reading"]
    /\ UNCHANGED ptOthers

\* Compiled: p.m.RUnlock(), before it reads fieldOrder and compiles.
Compiled_RUnlock(u) ==
    /\ point.exists
    /\ point.g[u].pc = "runlock"
    /\ point' = [point EXCEPT !.readers = @ - 1, !.g[u].pc = "reading"]
    /\ UNCHANGED ptOthers

\* The read of the maps and name lists ends; the deferred RUnlock runs
\* where there is one.
Point_Read(u) ==
    /\ point.exists
    /\ point.g[u].pc = "reading"
    /\ point' = [point EXCEPT !.readers = IF point.g[u].op = "Compiled" THEN @ ELSE @ - 1,
                        !.g[u] = idlePointUser]
    /\ UNCHANGED ptOthers

\* ------------------------------------------------------- the line encoder
\* Strings and buffers are sequences of bytes.  A tag or field name is its
\* rank among the names (see Names); NameBytes gives the bytes of each, and
\* is strictly increasing in the byte order of strings, so that comparing
\* ranks is comparing the strings.
NameBytes(name) ==
    CASE name = 0 -> <<>>
      [] name = 1 -> <<Newline, LetterA>>
      [] name = 2 -> <<Space, Equals>>
      [] name = 3 -> <<Comma>>
      [] OTHER -> <<LetterA + name>>

EncNames == Names \ {0}
Keys == {<<LetterA>>, <<LetterA, Newline, Comma>>}
TagValues == {<<LetterA, Space>>}
ClockReadings == 1..MaxClock

ErrNoFields == <<"dagr: no fields", 0>>
ErrField == <<"field error", 0>>

\* strconv.AppendInt(.., n, 10) for n >= 0.
RECURSIVE AppendInt(_)
AppendInt(n) ==
    IF n < 10 THEN <<DigitZero + n>>
    ELSE AppendInt(n \div 10) \o <<DigitZero + (n % 10)>>

\* Field values: a raw integer, a raw boolean, and a field of the caller's
\* own whose WriteTo writes a byte and then reports an error.
FieldValues == {[kind |-> "Int", v |-> 1], [kind |-> "Bad", v |-> 0]}
Field_WriteTo(f) ==
    CASE f.kind = "Int" -> [bytes |-> AppendInt(f.v) \o <<LetterI>>, err |-> Nil]
      [] f.kind = "Bool" ->
            [bytes |-> IF f.v = 1 THEN <<LetterT>> ELSE <<LetterF>>, err |-> Nil]
      [] OTHER -> [bytes |-> <<LetterA>>, err |-> ErrField]

\* tagEscaper.Replace: a backslash goes before every space, '=' and ','.
RECURSIVE tagEscaper(_)
tagEscaper(s) ==
    IF s = <<>> THEN <<>>
    ELSE (IF Head(s) \in {Space, Equals, Comma}
          THEN <<Backslash, Head(s)>> ELSE <<Head(s)>>) \o tagEscaper(Tail(s))

\* bytes.Buffer.Truncate that discards nothing.
Truncate_Keep(data, n) == data

\* bytes.Buffer.Truncate: all but the first n unread bytes are discarded.
Truncate(data, n) == SubSeq(data, 1, n)

\* sort.Strings on the names of a map.
RECURSIVE sortStrings(_)
sortStrings(S) ==
    IF S = {} THEN <<>>
    ELSE LET least == CHOOSE x \in S : \A y \in S : x <= y
         IN  <<least>> \o sortStrings(S \ {least})

\* writeTags: ",name=value" for each name, in the order of names.
RECURSIVE writeTags(_, _, _)
writeTags(data, tags, names) ==
    IF names = <<>> THEN data
    ELSE writeTags(data \o <<Comma>> \o tagEscaper(NameBytes(Head(names)))
                        \o <<Equals>> \o tagEscaper(tags[Head(names)]),
                   tags, Tail(names))

\* writeFields' loop from the i-th name (from 0) on.
RECURSIVE writeFields_loop(_, _, _, _)
writeFields_loop(data, fields, names, i) ==
    IF i >= Len(names) THEN [data |-> data, err |-> Nil]
    ELSE LET name == names[i + 1]
             w == Field_WriteTo(fields[name])
             d == data \o (IF i > 0 THEN <<Comma>> ELSE <<>>)
                       \o tagEscaper(NameBytes(name)) \o <<Equals>> \o w.bytes
         IN  IF w.err # Nil THEN [data |-> d, err |-> w.err]
             ELSE writeFields_loop(d, fields, names, i + 1)

\* writeFields without the check for no names.
writeFields_Unchecked(data, fields, names) ==
    writeFields_loop(data, fields, names, 0)

\* writeFields: ErrNoFields for no names, else "name=value" separated by
\* commas, up to and including what a failing field wrote.
writeFields(data, fields, names) ==
    IF Len(names) = 0 THEN [data |-> data, err |-> ErrNoFields]
    ELSE writeFields_loop(data, fields, names, 0)

\* writeTimestamp.
writeTimestamp(data, ts) == data \o AppendInt(ts)

\* The names of a Point's map in the order NewPoint's addTag or addField
\* calls leave them, whatever order the map iteration takes.
RECURSIVE orderOf(_)
orderOf(S) ==
    IF S = {} THEN <<>>
    ELSE LET n == CHOOSE x \in S : TRUE
         IN  insertOrderedString(orderOf(S \ {n}), n)

\* A RawPoint (Time 0 is the zero time) and a Point made by NewPoint.
RawPoint(key, tags, fields, time) ==
    [kind |-> "raw", key |-> key, tags |-> tags, fields |-> fields,
     tagOrder |-> <<>>, fieldOrder |-> <<>>, time |-> time]
EncPoint(key, tags, fields) ==
    [kind |-> "point", key |-> key, tags |-> tags, fields |-> fields,
     tagOrder |-> orderOf(DOMAIN tags), fieldOrder |-> orderOf(DOMAIN fields),
     time |-> 0]

\* RawPoint.GetTime.
RawPoint_GetTime(meas, now) == IF meas.time = 0 THEN now ELSE meas.time

\* Every function below that takes a writer w is given here for a w that is,
\* or unwraps to, a *bytes.Buffer holding data: getBuffer then returns the
\* unowned tempBuffer on that very buffer with head = Len(data), and the
\* final buf.WriteTo(w) only reports Len - head.  The result is the
\* buffer's new contents, n and err.
result(data, n, err) == [data |-> data, n |-> n, err |-> err]

\* Point.WriteTo.
Point_WriteTo(p, data, now) ==
    LET head == Len(data)
        d1 == writeTags(data \o tagEscaper(p.key), p.tags, p.tagOrder) \o <<Space>>
        f == writeFields(d1, p.fields, p.fieldOrder)
        d2 == writeTimestamp(f.data \o <<Space>>, now) \o <<Newline>>
    IN  IF f.err # Nil THEN result(Truncate(f.data, head), 0, f.err)
        ELSE result(d2, Len(d2) - head, Nil)

\* compile that leaves from where the separator begins.
compile_firstFrom_Keep(i, from, to) == from

\* compile: the first field's name is part of the lead, so its from is to.
compile_firstFrom(i, from, to) == IF i = 0 THEN to ELSE from

\* compile's loop over fieldOrder from index i (from 0) on: c is the
\* compiledPoint so far, buf the bytes of the pooled buffer.
RECURSIVE compile_loop(_, _, _, _)
compile_loop(p, c, buf, i) ==
    IF i >= Len(p.fieldOrder) THEN [c EXCEPT !.prefix = buf]
    ELSE LET name == p.fieldOrder[i + 1]
             from == Len(buf)
             b == buf \o <<IF i = 0 THEN Space ELSE Comma>>
                      \o tagEscaper(NameBytes(name)) \o <<Equals>>
             to == Len(b)
             cf == [from |-> compile_firstFrom(i, from, to), to |-> to,
                    value |-> p.fields[name]]
         IN  compile_loop(p,
                          [c EXCEPT !.lead = IF i = 0 THEN to ELSE @,
                                    !.fields = Append(@, cf)],
                          b, i + 1)

\* Point.compile.
compile(p) ==
    LET buf == writeTags(tagEscaper(p.key), p.tags, p.tagOrder)
    IN  compile_loop(p, [prefix |-> <<>>, lead |-> Len(buf), fields |-> <<>>],
                     buf, 0)

\* prefix[from:to] of a Go slice.
subslice(s, from, to) == SubSeq(s, from + 1, to)

\* compiledPoint.WriteTo's loop over c.fields from index i (from 0) on.
RECURSIVE compiled_loop(_, _, _)
compiled_loop(c, data, i) ==
    IF i >= Len(c.fields) THEN [data |-> data, err |-> Nil]
    ELSE LET f == c.fields[i + 1]
             w == Field_WriteTo(f.value)
             d == data \o (IF f.from < f.to THEN subslice(c.prefix, f.from, f.to)
                           ELSE <<>>) \o w.bytes
         IN  IF w.err # Nil THEN [data |-> d, err |-> w.err]
             ELSE compiled_loop(c, d, i + 1)

\* compiledPoint.WriteTo.
compiledPoint_WriteTo(c, data, now) ==
    LET head == Len(data)
        f == compiled_loop(c, data \o subslice(c.prefix, 0, c.lead), 0)
        d2 == writeTimestamp(f.data \o <<Space>>, now) \o <<Newline>>
    IN  IF f.err # Nil THEN result(Truncate(f.data, head), 0, f.err)
        ELSE result(d2, Len(d2) - head, Nil)

\* Point.Compiled, as a measurement: nil for a point without fields.
Compiled(p) ==
    IF Len(p.fieldOrder) = 0 THEN [kind |-> "nil"]
    ELSE [kind |-> "compiled", c |-> compile(p), when |-> 0]

\* compiledPoint.Snapshot: the compiled point and the clock's reading.
Snapshot(meas, now) == [kind |-> "snapshot", c |-> meas.c, when |-> now]

\* The WriteTo of a measurement that is an io.WriterTo; a
\* fixedCompiledPoint's is the one of the compiledPoint it embeds.
WriterTo_WriteTo(meas, data, now) ==
    IF meas.kind = "point" THEN Point_WriteTo(meas, data, now)
    ELSE compiledPoint_WriteTo(meas.c, data, now)

\* WriteMeasurement.
WriteMeasurement(meas, data, now) ==
    LET head == Len(data)
    IN  IF meas.kind \in {"point", "compiled", "snapshot"}
        THEN LET r == WriterTo_WriteTo(meas, data, now)
             IN  IF r.err # Nil THEN r
                 ELSE result(r.data, Len(r.data) - head, Nil)
        ELSE LET when == RawPoint_GetTime(meas, now)
                 d0 == data \o tagEscaper(meas.key)
                 d1 == IF Cardinality(DOMAIN meas.tags) > 0
                       THEN writeTags(d0, meas.tags, sortStrings(DOMAIN meas.tags))
                       ELSE d0
                 f == writeFields(d1 \o <<Space>>, meas.fields,
                                  sortStrings(DOMAIN meas.fields))
                 d2 == writeTimestamp(f.data \o <<Space>>, when) \o <<Newline>>
             IN  IF Cardinality(DOMAIN meas.fields) = 0
                 THEN result(data, 0, ErrNoFields)
                 ELSE IF f.err # Nil
                 THEN result(Truncate(f.data, head), 0, f.err)
                 ELSE result(d2, Len(d2) - head, Nil)

\* WriteMeasurements that skips nothing.
skipped_Never(err) == FALSE

\* WriteMeasurements skips the measurement that reported ErrNoFields.
skipped(err) == err = ErrNoFields

\* WriteMeasurements' loop over ms from index i (from 0) on; bufhead is
\* buf.head.
RECURSIVE WriteMeasurements_loop(_, _, _, _, _)
WriteMeasurements_loop(ms, data, bufhead, now, i) ==
    IF i >= Len(ms)
    THEN IF Len(data) = bufhead THEN result(data, 0, Nil)
         ELSE result(data, Len(data) - bufhead, Nil)
    ELSE LET head == Len(data)
             r == WriteMeasurement(ms[i + 1], data, now)
         IN  IF skipped(r.err)
             THEN WriteMeasurements_loop(ms, Truncate(r.data, head), bufhead, now, i + 1)
             ELSE IF r.err # Nil
             THEN result(Truncate(r.data, bufhead), 0, r.err)
             ELSE WriteMeasurements_loop(ms, r.data, bufhead, now, i + 1)

\* WriteMeasurements.
WriteMeasurements(ms, data, now) ==
    IF Len(ms) = 0 THEN result(data, 0, Nil)
    ELSE WriteMeasurements_loop(ms, data, Len(data), now, 0)

\* A destination: a caller's *bytes.Buffer holding data, or another writer,
\* of which data is what it was given so far and writes the number of its
\* Write calls.
Destination(isBuffer, data) == [isBuffer |-> isBuffer, data |-> data, writes |-> 0]

\* getBuffer(w): the bytes of the buffer a call on destination w works in.
\* For a *bytes.Buffer that is w itself (the tempBuffer is not owned, its
\* head is Len(w.data)); for another writer it is an empty pooled buffer.
getBuffer(w) == IF w.isBuffer THEN w.data ELSE <<>>

\* What a call on destination w leaves and returns when its outcome in the
\* buffer of getBuffer(w) is r.  The caller's buffer holds r.data.  Another
\* writer is written to only when the call returned through buf.WriteTo(w)
\* with something in the pooled buffer.
delivered(w, r) ==
    IF w.isBuffer
    THEN [w |-> [w EXCEPT !.data = r.data], n |-> r.n, err |-> r.err]
    ELSE IF r.err = Nil /\ Len(r.data) > 0
         THEN [w |-> [w EXCEPT !.data = @ \o r.data, !.writes = @ + 1],
               n |-> r.n, err |-> Nil]
         ELSE [w |-> w, n |-> r.n, err |-> r.err]

\* A program that does not use the encoder.
NoEncoder == enc = [exists |-> FALSE]

\* The encoder's inputs: measurements ms, a destination, the clock.  last is
\* the history of the latest call: what was called on which measurement,
\* the destination before it, the clock's reading, and what it returned.
NewEncoder(ms, w) ==
    [exists |-> TRUE, ms |-> ms, w |-> w, now |-> 1, calls |-> 0,
     snap |-> [kind |-> "nil"],
     last |-> [op |-> "none", i |-> 0, before |-> w, now |-> 0, n |-> 0, err |-> Nil]]

called(e, op, i, r) ==
    [e EXCEPT !.w = r.w, !.calls = @ + 1,
              !.last = [op |-> op, i |-> i, before |-> e.w, now |-> e.now,
                        n |-> r.n, err |-> r.err]]

\* The clock moves on.
Clock_Tick ==
    /\ enc.exists
    /\ enc.now < MaxClock
    /\ enc' = [enc EXCEPT !.now = @ + 1]
    /\ UNCHANGED encOthers

\* WriteMeasurement(w, ms[i]).
Call_WriteMeasurement(i) ==
    /\ enc.exists
    /\ enc.calls < MaxEncCalls
    /\ i \in 1..Len(enc.ms)
    /\ enc' = called(enc, "WriteMeasurement", i,
                     delivered(enc.w, WriteMeasurement(enc.ms[i], getBuffer(enc.w), enc.now)))
    /\ UNCHANGED encOthers

\* ms[i].WriteTo(w) for a Point.
Call_PointWriteTo(i) ==
    /\ enc.exists
    /\ enc.calls < MaxEncCalls
    /\ i \in 1..Len(enc.ms)
    /\ enc.ms[i].kind = "point"
    /\ enc' = called(enc, "Point.WriteTo", i,
                     delivered(enc.w, Point_WriteTo(enc.ms[i], getBuffer(enc.w), enc.now)))
    /\ UNCHANGED encOthers

\* ms[i].Compiled().WriteTo(w) for a Point with fields.
Call_CompiledWriteTo(i) ==
    /\ enc.exists
    /\ enc.calls < MaxEncCalls
    /\ i \in 1..Len(enc.ms)
    /\ enc.ms[i].kind = "point"
    /\ Compiled(enc.ms[i]).kind # "nil"
    /\ enc' = called(enc, "compiledPoint.WriteTo", i,
                     delivered(enc.w, compiledPoint_WriteTo(Compiled(enc.ms[i]).c, getBuffer(enc.w), enc.now)))
    /\ UNCHANGED encOthers

\* snap = ms[i].Compiled().Snapshot() for a Point with fields.
Call_Snapshot(i) ==
    /\ enc.exists
    /\ enc.snap.kind = "nil"
    /\ i \in 1..Len(enc.ms)
    /\ enc.ms[i].kind = "point"
    /\ Compiled(enc.ms[i]).kind # "nil"
    /\ enc' = [enc EXCEPT !.snap = Snapshot(Compiled(enc.ms[i]), enc.now)]
    /\ UNCHANGED encOthers

\* WriteMeasurement(w, snap).
Call_WriteSnapshot ==
    /\ enc.exists
    /\ enc.calls < MaxEncCalls
    /\ enc.snap.kind = "snapshot"
    /\ enc' = called(enc, "WriteMeasurement(snapshot)", 0,
                     delivered(enc.w, WriteMeasurement(enc.snap, getBuffer(enc.w), enc.now)))
    /\ UNCHANGED encOthers

\* WriteMeasurements(w, ms...).
Call_WriteMeasurements ==
    /\ enc.exists
    /\ enc.calls < MaxEncCalls
    /\ enc' = called(enc, "WriteMeasurements", 0,
                     delivered(enc.w, WriteMeasurements(enc.ms, getBuffer(enc.w), enc.now)))
    /\ UNCHANGED encOthers

\* ------------------------------------------------------- sync.RWMutex
\* RLock blocks while a Lock call is pending or holds the mutex.
RLockable == m.writer = "none"

\* Lock that does not wait for the readers.
LockAcquirable_Eager == m.writer = "pending"

\* Lock, once announced, waits for the active readers to depart.
LockAcquirable == m.writer = "pending" /\ m.readers = 0

\* --------------------------------------------------------- bufferchain
newBufferchain ==
    /\ all = [s \in Slots |-> <<>>]
    /\ buffers = [i \in Slots |-> i]
    /\ sz = 0
    /\ m = [readers |-> 0, writer |-> "none"]

\* bufferchain.Len: the counter, read under the read side of the lock.
bufferchain_Len == sz

\* The channel, had take() left the slot it received in it.
takeRest_Shared(ch) == ch

\* What take() leaves in the free-slot channel after receiving from it.
takeRest(ch) == Tail(ch)

\* A sub-buffer, had flush not reset it.
flushReset_Keep(buf) == buf

\* What flush leaves in a sub-buffer (bytes.Buffer.Reset).
flushReset(buf) == <<>>

\* The slice flush returns: the sub-buffers in slot order.
flushData == Concat(all, NumBuffers)

\* take(), first half: b.m.RLock().
take_RLock ==
    /\ RLockable
    /\ m' = [m EXCEPT !.readers = @ + 1]
    /\ UNCHANGED <<all, buffers, sz>>

\* flush(), b.m.Lock(): announce the writer, then wait for the readers.
flush_Lock ==
    /\ m.writer = "none"
    /\ m' = [m EXCEPT !.writer = "pending"]
    /\ UNCHANGED <<all, buffers, sz>>

flush_Acquire ==
    /\ LockAcquirable
    /\ m' = [m EXCEPT !.writer = "held"]
    /\ UNCHANGED <<all, buffers, sz>>

\* flush(), under the lock: nothing to do when every sub-buffer is
\* empty; else copy every sub-buffer, reset it and zero the counter.
\* The deferred Unlock ends it.
flush_Copy ==
    /\ m.writer = "held"
    /\ all' = [s \in Slots |-> flushReset(all[s])]
    /\ sz' = IF flushData = <<>> THEN sz ELSE 0
    /\ m' = [m EXCEPT !.writer = "none"]
    /\ drained' = Append(drained, flushData)
    /\ UNCHANGED <<buffers, closedLog, cancelLog>>

\* ------------------------------------------------------------- writers
\* A writer goroutine makes one call at a time, of kind
\*   "chain.Write", "chain.Writer": on the bufferchain itself;
\*   "Write", "Writer", "Transaction": on the Proxy.
\* pc: idle, recv (in take), open (holds a handle), add (in Write),
\* return (in close), then flushExcess: fx_len1, fx_lock, fx_len2,
\* fx_send, fx_wait.
ChainKinds == {"chain.Write", "chain.Writer"}
ProxyKinds == {"Write", "Writer", "Transaction"}
SingleWrite(kind) == kind \in {"chain.Write", "Write"}

\* late is the last call made on the handle after its Close, with the
\* error it returned.
idleWriter == [pc |-> "idle", kind |-> "none", buf |-> 0, hbytes |-> <<>>,
               pend |-> 0, nwrites |-> 0, ops |-> 0, written |-> 0,
               fxleft |-> 0, fxonce |-> FALSE,
               late |-> [call |-> "none", err |-> Nil]]

\* How many times flushExcess runs once the handle is closed: Write calls
\* it, the Closer that Writer wraps (when flushSize > 0) calls it, and
\* Transaction calls it once more after closing its Writer.
flushExcessCalls(kind) ==
    IF kind \in ChainKinds THEN 0
    ELSE IF kind = "Write" THEN 1
    ELSE IF kind = "Writer" THEN (IF cfg.flushSize > 0 THEN 1 ELSE 0)
    ELSE (IF cfg.flushSize > 0 THEN 2 ELSE 1)

\* A call begins: take(), b.m.RLock().
Take(w) ==
    /\ Constructed
    /\ wr[w].pc = "idle"
    /\ wr[w].ops < env.ops
    /\ take_RLock
    /\ \E k \in env.kinds : wr' = [wr EXCEPT ![w].pc = "recv", ![w].kind = k]
    /\ UNCHANGED <<proxyVars, histVars>>

\* take(): buf = <-ch.
Recv(w) ==
    /\ wr[w].pc = "recv"
    /\ buffers # <<>>
    /\ buffers' = takeRest(buffers)
    /\ wr' = [wr EXCEPT ![w].pc = "open", ![w].buf = Head(buffers),
                        ![w].hbytes = <<>>, ![w].nwrites = 0]
    /\ UNCHANGED <<all, sz, m, proxyVars, histVars>>

\* lockcloser.Write, first half: b.buf.Write(data).
Write(w) ==
    /\ wr[w].pc = "open"
    /\ wr[w].nwrites < (IF SingleWrite(wr[w].kind) THEN 1 ELSE MaxHandleWrites)
    /\ \E n \in 1..MaxChunk :
         /\ wr[w].written + n <= env.maxBytes
         /\ LET data == Chunk(w, wr[w].written, n) IN
              /\ all' = [all EXCEPT ![wr[w].buf] = @ \o data]
              /\ wr' = [wr EXCEPT ![w].pc = "add", ![w].pend = n,
                                  ![w].hbytes = @ \o data,
                                  ![w].written = @ + n,
                                  ![w].nwrites = @ + 1]
    /\ UNCHANGED <<buffers, sz, m, proxyVars, histVars>>

\* lockcloser.Write, second half: atomic.AddInt64(b.size, n).
Add(w) ==
    /\ wr[w].pc = "add"
    /\ sz' = sz + wr[w].pend
    /\ wr' = [wr EXCEPT ![w].pc = "open", ![w].pend = 0]
    /\ UNCHANGED <<all, buffers, m, proxyVars, histVars>>

\* The close function of take(), first half: the CAS on done, b.m.RUnlock().
Close(w) ==
    /\ wr[w].pc = "open"
    /\ SingleWrite(wr[w].kind) => wr[w].nwrites = 1
    /\ m' = [m EXCEPT !.readers = @ - 1]
    /\ wr' = [wr EXCEPT ![w].pc = "return"]
    /\ closedLog' = closedLog \cup
          {[w |-> w, buf |-> wr[w].buf, bytes |-> wr[w].hbytes,
            epoch |-> Len(drained)]}
    /\ UNCHANGED <<all, buffers, sz, proxyVars, drained, cancelLog>>

\* The call's end, or the next flushExcess of the call.
afterCall(w, left) ==
    IF left > 0
    THEN [wr[w] EXCEPT !.pc = "fx_len1", !.buf = 0, !.hbytes = <<>>,
                       !.fxleft = left, !.fxonce = FALSE]
    ELSE [wr[w] EXCEPT !.pc = "idle", !.buf = 0, !.hbytes = <<>>,
                       !.fxleft = 0, !.fxonce = FALSE, !.ops = @ + 1]

\* The close function of take(), second half: ch <- buf (the channel has
\* room for every slot); lockcloser.Close then clears the handle.  What
\* follows is flushExcess, which returns at once when flushSize <= 0.
Return(w) ==
    /\ wr[w].pc = "return"
    /\ buffers' = Append(buffers, wr[w].buf)
    /\ wr' = [wr EXCEPT ![w] =
                afterCall(w, IF cfg.flushSize > 0
                             THEN flushExcessCalls(wr[w].kind) ELSE 0)]
    /\ UNCHANGED <<all, sz, m, proxyVars, histVars>>

\* ------------------------------------------------- a handle after Close
errDoubleClose == <<"errDoubleClose", 0>>
Panic == <<"panic", 0>>

\* The test, had a cleared handle passed for an open one.
closedHandle_Never(buf) == FALSE

\* if b.buf == nil: lockcloser.Close has cleared the handle (slot 0 is nil).
closedHandle(buf) == buf = 0

\* A call on a cleared handle returns errDoubleClose before it touches
\* anything; past the test it would use the nil buffer or the nil closer.
lateCall(w, call) ==
    /\ wr[w].pc = "idle"
    /\ wr[w].ops >= 1
    /\ wr' = [wr EXCEPT ![w].late =
                [call |-> call,
                 err |-> IF closedHandle(wr[w].buf) THEN errDoubleClose ELSE Panic]]
    /\ UNCHANGED <<chainVars, proxyVars, histVars>>

\* lockcloser.Close, called again on the handle of the call before.
CloseAgain(w) == lateCall(w, "Close")

\* lockcloser.Write (WriteString, WriteByte, ReadFrom) on that handle.
WriteClosed(w) == lateCall(w, "Write")

\* -------------------------------------------------------------- flushop
\* Who waits on a flushop's reply channel: a Flush caller, a writer in
\* flushExcess, or nobody (a tick, the shutdown flush).
NoReq == <<"none", 0>>
FlusherReq(c) == <<"F", c>>
WriterReq(w) == <<"W", w>>
Requesters == {FlusherReq(c) : c \in Flushers} \cup {WriterReq(w) : w \in Writers}

NoOp == [ctx |-> Background, req |-> NoReq, capacity |-> -1]

\* flushop.swapped, had it left flushlock alone.
swapped_flushlock_Keep(op) == flushlock

\* flushop.swapped: the op of flushExcess carries unlock, which releases
\* flushlock through a sync.Once; other ops carry no swapFunc.
swapped_flushlock(op) ==
    IF op.req[1] = "W" /\ ~wr[op.req[2]].fxonce THEN 0 ELSE flushlock

\* The sync.Once of unlock, had it kept no record of the call.
swapped_wr_Forget(op) == wr

\* The sync.Once of unlock records that swapped() has run it.
swapped_wr(op) ==
    IF op.req[1] = "W" THEN [wr EXCEPT ![op.req[2]].fxonce = TRUE] ELSE wr

\* flushop.reply that delivers the error twice.
reply_Twice(op, err) ==
    IF op.req = NoReq
    THEN UNCHANGED errch
    ELSE errch' = [errch EXCEPT ![op.req] = Append(Append(@, err), err)]

\* flushop.reply: select between the op's ctx.Done() and the send on its
\* reply channel, which has room; an op without a channel gets nothing.
reply(op, err) ==
    IF op.req = NoReq
    THEN UNCHANGED errch
    ELSE \/ errch' = [errch EXCEPT ![op.req] = Append(@, err)]
         \/ ctxDone(op.ctx) /\ UNCHANGED errch

\* ---------------------------------------------------------- flushExcess
\* The test of flushExcess, had it been length <= max.
tooSmall_OrEqual(length, max) == length <= max

\* flushExcess returns when the buffered length is below flushSize.
tooSmall(length, max) == length < max

\* flushExcess, the first w.buffer.Len(): give up or go for flushlock.
Fx_Len1(w) ==
    /\ wr[w].pc = "fx_len1"
    /\ RLockable
    /\ wr' = [wr EXCEPT ![w] =
                IF tooSmall(bufferchain_Len, cfg.flushSize)
                THEN afterCall(w, wr[w].fxleft - 1)
                ELSE [wr[w] EXCEPT !.pc = "fx_lock"]]
    /\ UNCHANGED <<chainVars, proxyVars, histVars>>

\* flushExcess: w.flushlock.Lock().
Fx_Lock(w) ==
    /\ wr[w].pc = "fx_lock"
    /\ flushlock = 0
    /\ flushlock' = w
    /\ wr' = [wr EXCEPT ![w].pc = "fx_len2"]
    /\ UNCHANGED <<chainVars, setup, cfg, env, errch, dr, tasks, ctx, fl, reqheld,
                   histVars>>

\* flushExcess, w.buffer.Len() again under flushlock: return (the deferred
\* unlock releases flushlock) or go on to flushWithCapacity.
Fx_Len2(w) ==
    /\ wr[w].pc = "fx_len2"
    /\ RLockable
    /\ IF tooSmall(bufferchain_Len, cfg.flushSize)
       THEN /\ wr' = [wr EXCEPT ![w] = afterCall(w, wr[w].fxleft - 1)]
            /\ flushlock' = 0
       ELSE /\ wr' = [wr EXCEPT ![w].pc = "fx_send"]
            /\ UNCHANGED flushlock
    /\ UNCHANGED <<chainVars, setup, cfg, env, errch, dr, tasks, ctx, fl, reqheld,
                   histVars>>

\* flushWithCapacity in flushExcess, second select: the reply arrives
\* (context.Background() is never done); the deferred unlock then
\* releases flushlock unless swapped() already did.
Fx_Wait(w) ==
    /\ wr[w].pc = "fx_wait"
    /\ errch[WriterReq(w)] # <<>>
    /\ errch' = [errch EXCEPT ![WriterReq(w)] = <<>>]
    /\ flushlock' = IF wr[w].fxonce THEN flushlock ELSE 0
    /\ wr' = [wr EXCEPT ![w] = afterCall(w, wr[w].fxleft - 1)]
    /\ UNCHANGED <<chainVars, setup, cfg, env, dr, tasks, ctx, fl, reqheld, histVars>>

\* ---------------------------------------------------------- Proxy.Flush
idleFlusher == [pc |-> "idle", result |-> Nil]

\* Flush(ctx) enters flushWithCapacity(ctx, -1, nil).
Flush(c) ==
    /\ Constructed
    /\ fl[c].pc = "idle"
    /\ fl' = [fl EXCEPT ![c].pc = "send"]
    /\ UNCHANGED <<chainVars, wr, setup, cfg, env, flushlock, errch, dr, tasks, ctx,
                   reqheld, histVars>>

\* flushWithCapacity, first select, case <-done: return ctx.Err().
Flush_Abort(c) ==
    /\ fl[c].pc = "send"
    /\ ctxDone(FlushCtx(c))
    /\ fl' = [fl EXCEPT ![c].pc = "done", ![c].result = ctxErr(FlushCtx(c))]
    /\ UNCHANGED <<chainVars, wr, setup, cfg, env, flushlock, errch, dr, tasks, ctx,
                   reqheld, histVars>>

\* flushWithCapacity, second select, case err := <-errch.
Flush_Reply(c) ==
    /\ fl[c].pc = "wait"
    /\ errch[FlusherReq(c)] # <<>>
    /\ fl' = [fl EXCEPT ![c].pc = "done", ![c].result = Head(errch[FlusherReq(c)])]
    /\ errch' = [errch EXCEPT ![FlusherReq(c)] = Tail(@)]
    /\ UNCHANGED <<chainVars, wr, setup, cfg, env, flushlock, dr, tasks, ctx,
                   reqheld, histVars>>

\* flushWithCapacity, second select, case <-done: return ctx.Err().
Flush_Done(c) ==
    /\ fl[c].pc = "wait"
    /\ ctxDone(FlushCtx(c))
    /\ fl' = [fl EXCEPT ![c].pc = "done", ![c].result = ctxErr(FlushCtx(c))]
    /\ UNCHANGED <<chainVars, wr, setup, cfg, env, flushlock, errch, dr, tasks, ctx,
                   reqheld, histVars>>

\* A context's CancelFunc is called by whoever holds it.
\* History: where each send goroutine was, and how many Send calls it
\* had made, at the cancellation.
Cancel(c) ==
    /\ ctx[c] = "live"
    /\ ctx' = [ctx EXCEPT ![c] = "Canceled"]
    /\ cancelLog' = [cancelLog EXCEPT ![c] =
         <<[t \in DOMAIN tasks |-> [pc |-> tasks[t].pc, sends |-> tasks[t].sends]]>>]
    /\ UNCHANGED <<chainVars, wr, setup, cfg, env, flushlock, errch, dr, tasks, fl,
                   reqheld, drained, closedLog>>

CancelStart == Constructed /\ Cancel(StartCtx)
CancelStartOf(k) == k \in dr.starts /\ Cancel(StartCtxOf(k))
CancelFlush(c) == fl[c].pc # "idle" /\ Cancel(FlushCtx(c))

\* -------------------------------------------------------------- drainer
\* pc: notstarted, select (the loop of sendEveryInterval), len, flush,
\* lock, held (in swapAndSend), cancel (the deferred cancel of the
\* shutdown context), exited.
\* History: declined counts the ops swapAndSend declined for capacity.
\* ctx is the context the drainer runs under.  History: launched counts
\* the drainers started, starts holds the Start calls made.
newDrainer == [pc |-> "notstarted", op |-> NoOp, final |-> FALSE, ticks |-> 0,
               declined |-> 0, ctx |-> Background, launched |-> 0, starts |-> {}]

\* The capacity test, had swapAndSend never declined.
belowCapacity_Never(buflen, capacity) == FALSE

\* swapAndSend declines an op whose capacity the buffered length is below.
belowCapacity(buflen, capacity) == buflen < capacity

\* Where swapAndSend starts: a capacity < 0 always flushes.
swapAndSend_entry(op) == IF op.capacity < 0 THEN "flush" ELSE "len"

\* The drainer, had it ended after a swapAndSend.
swapAndSend_exit_Stop == "exited"

\* Where the drainer goes when swapAndSend returns.
swapAndSend_exit ==
    IF ~dr.final THEN "select"
    ELSE IF cfg.timeout > 0 THEN "cancel" ELSE "exited"

\* The context of the shutdown flush: context.Background(), under
\* WithTimeout when the proxy has a timeout.
shutdownContext == IF cfg.timeout > 0 THEN ShutdownCtx ELSE Background

\* sync.Once.Do, had it run the function on every call.
startOnce_Always(launched) == TRUE

\* sync.Once.Do runs the function when no call has run it yet.
startOnce(launched) == launched = 0

\* Proxy.Start, the k-th call: startOnce runs go sendEveryInterval, with
\* the call's context, once; a later call does nothing.
StartCall(k) ==
    /\ Constructed
    /\ k <= env.starts
    /\ k \notin dr.starts
    /\ dr' = IF startOnce(dr.launched)
             THEN [dr EXCEPT !.pc = "select", !.ctx = StartCtxOf(k),
                             !.launched = @ + 1, !.starts = @ \cup {k}]
             ELSE [dr EXCEPT !.starts = @ \cup {k}]
    /\ UNCHANGED <<chainVars, wr, setup, cfg, env, flushlock, errch, tasks, ctx, fl,
                   reqheld, histVars>>

Start == \E k \in 1..MaxStarts : StartCall(k)

\* select, case <-done: return, and the deferred function begins the
\* shutdown flush.
Dr_Done ==
    /\ dr.pc = "select"
    /\ ctxDone(dr.ctx)
    /\ dr' = [dr EXCEPT !.pc = "flush", !.final = TRUE,
                        !.op = [ctx |-> shutdownContext, req |-> NoReq,
                                capacity |-> -1]]
    /\ UNCHANGED <<chainVars, wr, setup, cfg, env, flushlock, errch, tasks, ctx, fl,
                   reqheld, histVars>>

\* select, case <-tick: the timer exists when interval > 0.
Dr_Tick ==
    /\ dr.pc = "select"
    /\ env.interval > 0
    /\ dr.ticks < MaxTicks
    /\ dr' = [dr EXCEPT !.pc = "flush", !.ticks = @ + 1,
                        !.op = [ctx |-> dr.ctx, req |-> NoReq, capacity |-> -1]]
    /\ UNCHANGED <<chainVars, wr, setup, cfg, env, flushlock, errch, tasks, ctx, fl,
                   reqheld, histVars>>

\* select, case op := <-w.flush, the sender being a Flush call.
Dr_RecvFlush(c) ==
    /\ dr.pc = "select"
    /\ fl[c].pc = "send"
    /\ fl' = [fl EXCEPT ![c].pc = "wait"]
    /\ dr' = [dr EXCEPT !.pc = "flush",
                        !.op = [ctx |-> FlushCtx(c), req |-> FlusherReq(c),
                                capacity |-> -1]]
    /\ UNCHANGED <<chainVars, wr, setup, cfg, env, flushlock, errch, tasks, ctx,
                   reqheld, histVars>>

\* select, case op := <-w.flush, the sender being a flushExcess.
Dr_RecvExcess(w) ==
    /\ dr.pc = "select"
    /\ wr[w].pc = "fx_send"
    /\ wr' = [wr EXCEPT ![w].pc = "fx_wait"]
    /\ LET op == [ctx |-> Background, req |-> WriterReq(w),
                  capacity |-> cfg.flushSize]
       IN  dr' = [dr EXCEPT !.pc = swapAndSend_entry(op), !.op = op]
    /\ UNCHANGED <<chainVars, setup, cfg, env, flushlock, errch, tasks, ctx, fl,
                   reqheld, histVars>>

\* swapAndSend, capacity >= 0: w.buffer.Len(); below the capacity it calls
\* swapped() and reply(nil) and returns.
Dr_Len ==
    /\ dr.pc = "len"
    /\ RLockable
    /\ IF belowCapacity(bufferchain_Len, dr.op.capacity)
       THEN /\ flushlock' = swapped_flushlock(dr.op)
            /\ wr' = swapped_wr(dr.op)
            /\ reply(dr.op, Nil)
            /\ dr' = [dr EXCEPT !.pc = swapAndSend_exit, !.op = NoOp,
                                !.declined = @ + 1]
       ELSE /\ dr' = [dr EXCEPT !.pc = "flush"]
            /\ UNCHANGED <<flushlock, wr, errch>>
    /\ UNCHANGED <<chainVars, setup, cfg, env, tasks, ctx, fl, reqheld, histVars>>

\* swapAndSend: w.buffer.flush(), b.m.Lock().
Dr_FlushLock ==
    /\ dr.pc = "flush"
    /\ flush_Lock
    /\ dr' = [dr EXCEPT !.pc = "lock"]
    /\ UNCHANGED <<wr, setup, cfg, env, flushlock, errch, tasks, ctx, fl, reqheld,
                   histVars>>

Dr_FlushAcquire ==
    /\ dr.pc = "lock"
    /\ flush_Acquire
    /\ dr' = [dr EXCEPT !.pc = "held"]
    /\ UNCHANGED <<wr, setup, cfg, env, flushlock, errch, tasks, ctx, fl, reqheld,
                   histVars>>

\* A send goroutine: sendData(op.ctx, data, w.retries), then op.reply.
\* pc: loop, begin, sending, backoff, ret, done.  batch is the index of
\* its data in drained.  History: sends counts the Send calls, end tells
\* why the loop ended, iterDone whether the context was done when the
\* current iteration began, lastRetry the retry flag of the last Send,
\* waited whether a Flush call was waiting for the reply when the last
\* Send returned, swapLive whether the context was live at the swap,
\* boRetry the retry argument of the last call of the BackoffFunc (0
\* before any).
newTask(op, batch) ==
    [ctx |-> op.ctx, req |-> op.req, batch |-> batch, i |-> 0, pc |-> "loop",
     err |-> Nil, sends |-> 0, end |-> "none", iterDone |-> FALSE,
     lastRetry |-> TRUE, waited |-> FALSE, swapLive |-> ~ctxDone(op.ctx),
     boRetry |-> 0]

\* swapAndSend: the rest of flush(), then swapped(); with no data
\* reply(nil), else go sendData.
Dr_FlushCopy ==
    /\ dr.pc = "held"
    /\ flush_Copy
    /\ flushlock' = swapped_flushlock(dr.op)
    /\ wr' = swapped_wr(dr.op)
    /\ IF flushData = <<>>
       THEN reply(dr.op, Nil) /\ UNCHANGED tasks
       ELSE /\ tasks' = Append(tasks, newTask(dr.op, Len(drained) + 1))
            /\ UNCHANGED errch
    /\ dr' = [dr EXCEPT !.pc = swapAndSend_exit, !.op = NoOp]
    /\ UNCHANGED <<setup, cfg, env, ctx, fl, reqheld>>

\* The deferred cancel of the shutdown context runs when swapAndSend has
\* returned; the drainer is gone.
Dr_Cancel ==
    /\ dr.pc = "cancel"
    /\ ctx' = [ctx EXCEPT ![ShutdownCtx] = IF @ = "live" THEN "Canceled" ELSE @]
    /\ dr' = [dr EXCEPT !.pc = "exited"]
    /\ UNCHANGED <<chainVars, wr, setup, cfg, env, flushlock, errch, tasks, fl,
                   reqheld, histVars>>

\* The timer of context.WithTimeout(ctx, timeout) fires.
ShutdownTimeout ==
    /\ dr.final
    /\ cfg.timeout > 0
    /\ ctx[ShutdownCtx] = "live"
    /\ ctx' = [ctx EXCEPT ![ShutdownCtx] = "DeadlineExceeded"]
    /\ UNCHANGED <<chainVars, wr, setup, cfg, env, flushlock, errch, dr, tasks, fl,
                   reqheld, histVars>>

\* ------------------------------------------------------------- sendData
Tasks == 1..Len(tasks)

\* Each goroutine sends a batch of at least one byte, and no byte is in
\* two batches: the goroutines are at most as many as the bytes written.
TaskIds == 1..(NumWriters * MaxOps * MaxHandleWrites * MaxChunk)

\* What the Sender may return: nil, or an error with its retry advice.
\* "fail" is an error of the Sender's own, "Canceled" is context.Canceled.
Succeeds == {[retry |-> FALSE, err |-> "nil"]}
AnyOutcome == Succeeds \cup [retry : BOOLEAN, err : {"fail", "Canceled"}]
outcomeErr(o, i) ==
    IF o.err = "nil" THEN Nil
    ELSE IF o.err = "Canceled" THEN Canceled ELSE SendErr(i)

\* The loop's test, had it not looked at the context.
iterErr_Skip(c) == Nil

\* The loop's test of its context at the head of each iteration.
iterErr(c) == ctxErr(c)

\* The break, had it looked at context.Canceled alone.
terminal_IgnoreAdvice(retry, err) == err = Canceled

\* The loop breaks on an error when the Sender advises against a retry
\* or the error is context.Canceled.
terminal(retry, err) == ~retry \/ err = Canceled

\* The attempt's test, had it taken no result for a success.
sendOK_Never(err) == FALSE

\* if err == nil { return nil }: the attempt succeeded.
sendOK(err) == err = Nil

\* Whether the Flush call behind a reply channel is waiting on it.
flushWaits(req) == req[1] = "F" /\ fl[req[2]].pc = "wait"

\* for i := 0; i <= retries; i++ { if err = ctx.Err(); err != nil { break } ...
Task_Iter(t) ==
    /\ t \in Tasks
    /\ tasks[t].pc = "loop"
    /\ LET tk == tasks[t] IN
       tasks' = [tasks EXCEPT ![t] =
         IF tk.i > cfg.retries
         THEN [tk EXCEPT !.pc = "ret", !.end = "exhausted"]
         ELSE IF iterErr(tk.ctx) # Nil
         THEN [tk EXCEPT !.pc = "ret", !.end = "ctx", !.err = iterErr(tk.ctx),
                         !.iterDone = ctxDone(tk.ctx)]
         ELSE [tk EXCEPT !.pc = "begin", !.iterDone = ctxDone(tk.ctx)]]
    /\ UNCHANGED <<chainVars, wr, setup, cfg, env, flushlock, errch, dr, ctx, fl,
                   reqheld, histVars>>

\* try: w.requests.begin(), then w.sender.Send(ctx, data) is called.
Task_Begin(t) ==
    /\ t \in Tasks
    /\ tasks[t].pc = "begin"
    /\ beginReady
    /\ reqheld' = requests_begin
    /\ tasks' = [tasks EXCEPT ![t].pc = "sending", ![t].sends = @ + 1]
    /\ UNCHANGED <<chainVars, wr, setup, cfg, env, flushlock, errch, dr, ctx, fl,
                   histVars>>

\* Send returns; the deferred w.requests.end(); then the loop decides:
\* return nil, break, continue at once, or wait for the backoff.
Task_SendReturn(t) ==
    /\ t \in Tasks
    /\ tasks[t].pc = "sending"
    /\ reqheld' = requests_end
    /\ \E o \in env.sender :
         LET tk == [tasks[t] EXCEPT !.waited = flushWaits(tasks[t].req)]
             err == outcomeErr(o, tasks[t].i)
         IN  tasks' = [tasks EXCEPT ![t] =
               IF sendOK(err)
               THEN [tk EXCEPT !.pc = "ret", !.err = err, !.end = "success",
                               !.lastRetry = o.retry]
               ELSE IF terminal(o.retry, err)
               THEN [tk EXCEPT !.pc = "ret", !.err = err, !.end = "terminal",
                               !.lastRetry = o.retry]
               ELSE IF delayfunc(tk.i + 1, cfg.retries) <= 0
               THEN [tk EXCEPT !.pc = "loop", !.err = err, !.i = tk.i + 1,
                               !.lastRetry = o.retry, !.boRetry = tk.i + 1]
               ELSE [tk EXCEPT !.pc = "backoff", !.err = err,
                               !.lastRetry = o.retry, !.boRetry = tk.i + 1]]
    /\ UNCHANGED <<chainVars, wr, setup, cfg, env, flushlock, errch, dr, ctx, fl,
                   histVars>>

\* select, case <-time.After(next): the next iteration.
Task_BackoffFire(t) ==
    /\ t \in Tasks
    /\ tasks[t].pc = "backoff"
    /\ tasks' = [tasks EXCEPT ![t].pc = "loop", ![t].i = @ + 1]
    /\ UNCHANGED <<chainVars, wr, setup, cfg, env, flushlock, errch, dr, ctx, fl,
                   reqheld, histVars>>

\* The backoff's select, had case <-done always been ready.
backoffDone_Always(c) == TRUE

\* The backoff's select takes case <-done when the context is done.
backoffDone(c) == ctxDone(c)

\* select, case <-done: err is the last Send's error, which is not nil,
\* so it is kept; break.
Task_BackoffDone(t) ==
    /\ t \in Tasks
    /\ tasks[t].pc = "backoff"
    /\ backoffDone(tasks[t].ctx)
    /\ tasks' = [tasks EXCEPT ![t].pc = "ret", ![t].end = "ctxbackoff"]
    /\ UNCHANGED <<chainVars, wr, setup, cfg, env, flushlock, errch, dr, ctx, fl,
                   reqheld, histVars>>

\* The goroutine's deferred op.reply(err).
Task_Reply(t) ==
    /\ t \in Tasks
    /\ tasks[t].pc = "ret"
    /\ reply([ctx |-> tasks[t].ctx, req |-> tasks[t].req, capacity |-> -1],
             tasks[t].err)
    /\ tasks' = [tasks EXCEPT ![t].pc = "done"]
    /\ UNCHANGED <<chainVars, wr, setup, cfg, env, flushlock, dr, ctx, fl, reqheld,
                   histVars>>

\* ------------------------------------------------------- initial states
\* The fields of a proxy configured as conf from the options o, in the
\* environment e, but for its buffer chain.
proxyWith(o, e, conf) ==
    /\ wr = [w \in Writers |-> idleWriter]
    /\ opts = o
    /\ cfg = conf
    /\ env = e
    /\ flushlock = 0
    /\ errch = [r \in Requesters |-> <<>>]
    /\ dr = newDrainer
    /\ tasks = <<>>
    /\ ctx = [c \in CtxIds |-> "live"]
    /\ fl = [c \in Flushers |-> idleFlusher]
    /\ reqheld = 0
    /\ drained = <<>>
    /\ closedLog = {}
    /\ cancelLog = [c \in CtxIds |-> <<>>]

\* The fields of a proxy built by newProxy with the options o.
newProxyState(o, e) == proxyWith(o, e, newProxy(o))

\* A proxy built by newProxy with the options o, in the environment e.
InitOutflux(o, e) == newBufferchain /\ newProxyState(o, e)

\* A proxy built by newProxy with the options o, in the environment e, in a
\* program that uses nothing of package dagr.
\* Nothing of package dagr is in use.
NoDagr == NoPointSet /\ NoField /\ NoPoint /\ NoEncoder

InitWith(o, e) == InitOutflux(o, e) /\ NoDagr

\* ------------------------------------------- the buffer chain on its own
\* Writers use bufferchain.Write (take, one Write, Close) or a handle from
\* bufferchain.Writer (take, Writes, Close); any goroutine may call flush.
InitChain ==
    InitWith(NoOptions,
             [sender |-> Succeeds, ops |-> MaxOps, kinds |-> ChainKinds,
              maxBytes |-> MaxOps * MaxHandleWrites * MaxChunk, interval |-> 0,
              starts |-> 1])

ChainFlushLock ==
    /\ Len(drained) < MaxFlushes
    /\ flush_Lock
    /\ UNCHANGED <<wr, proxyVars, histVars>>

ChainFlushAcquire == flush_Acquire /\ UNCHANGED <<wr, proxyVars, histVars>>

ChainFlushCopy == flush_Copy /\ UNCHANGED <<wr, proxyVars>>

NextChain ==
    \/ \E w \in Writers : Take(w)
    \/ \E w \in Writers : Recv(w)
    \/ \E w \in Writers : Write(w)
    \/ \E w \in Writers : Add(w)
    \/ \E w \in Writers : Close(w)
    \/ \E w \in Writers : Return(w)
    \/ ChainFlushLock
    \/ ChainFlushAcquire
    \/ ChainFlushCopy

SpecChain == InitChain /\ [][NextChain]_vars

\* ------------------------------------------------------------ the proxy
\* The steps of a writer's call, of bufferchain.flush in swapAndSend, and
\* of a send goroutine.
WriteCall(w) ==
    \/ Take(w) \/ Recv(w) \/ Write(w) \/ Add(w) \/ Close(w) \/ Return(w)

FlushExcess(w) ==
    \/ Fx_Len1(w) \/ Fx_Lock(w) \/ Fx_Len2(w) \/ Dr_RecvExcess(w) \/ Fx_Wait(w)

FlushCall(c) ==
    \/ Flush(c) \/ Dr_RecvFlush(c) \/ Flush_Reply(c)

FlushStep == Dr_FlushLock \/ Dr_FlushAcquire \/ Dr_FlushCopy

SendAttempt(t) ==
    \/ Task_Iter(t) \/ Task_Begin(t) \/ Task_SendReturn(t) \/ Task_Reply(t)

\* The proxy with opportunistic flushes and Flush calls, a Sender that
\* succeeds, no ticks and no cancellation.
Init ==
    InitWith([NoOptions EXCEPT !.flushSize = Option(FlushThreshold),
                               !.retryLimit = Option(0)],
             [sender |-> Succeeds, ops |-> 1, kinds |-> ProxyKinds,
              maxBytes |-> MaxHandleWrites * MaxChunk, interval |-> 0,
              starts |-> 1])

Next ==
    \/ \E w \in Writers : WriteCall(w) \/ FlushExcess(w)
    \/ \E c \in Flushers : FlushCall(c)
    \/ Start \/ Dr_Len \/ FlushStep
    \/ \E t \in TaskIds : SendAttempt(t)

Spec == Init /\ [][Next]_vars

\* The retry loop: Flush calls whose context may be cancelled, every
\* retry limit and both kinds of backoff, a Sender that may fail.
InitRetry ==
    \E r \in -1..MaxRetryLimit, b \in {Option(0), NoOption} :
      InitWith([NoOptions EXCEPT !.retryLimit = Option(r), !.backoff = b],
               [sender |-> AnyOutcome, ops |-> 1, kinds |-> {"Write"},
                maxBytes |-> MaxChunk, interval |-> 0,
              starts |-> 1])

NextRetry ==
    \/ \E w \in Writers : WriteCall(w)
    \/ \E c \in Flushers :
         FlushCall(c) \/ Flush_Abort(c) \/ Flush_Done(c) \/ CancelFlush(c)
    \/ Start \/ FlushStep
    \/ \E t \in TaskIds :
         SendAttempt(t) \/ Task_BackoffFire(t) \/ Task_BackoffDone(t)

SpecRetry == InitRetry /\ [][NextRetry]_vars

\* Shutdown: the context given to Start ends, with and without a timeout.
InitShutdown ==
    \E to \in {-1, 0, 1} :
      InitWith([NoOptions EXCEPT !.timeout = Option(to),
                                 !.retryLimit = Option(MaxRetryLimit),
                                 !.backoff = Option(0)],
               [sender |-> AnyOutcome, ops |-> 1, kinds |-> {"Write"},
                maxBytes |-> MaxChunk, interval |-> 1,
              starts |-> 1])

NextShutdown ==
    \/ \E w \in Writers : WriteCall(w)
    \/ Start \/ CancelStart \/ Dr_Done \/ Dr_Tick \/ FlushStep
    \/ Dr_Cancel \/ ShutdownTimeout
    \/ \E t \in TaskIds : SendAttempt(t)

SpecShutdown == InitShutdown /\ [][NextShutdown]_vars

\* Request limits: RequestLimit(n) for n around 0, batches sent at the
\* same time.
InitLimit ==
    \E n \in -1..2 :
      InitWith([NoOptions EXCEPT !.requestLimit = Option(n),
                                 !.retryLimit = Option(0)],
               [sender |-> AnyOutcome, ops |-> 1, kinds |-> {"Write"},
                maxBytes |-> MaxChunk, interval |-> 1,
              starts |-> 1])

NextLimit ==
    \/ \E w \in Writers : WriteCall(w)
    \/ \E c \in Flushers : FlushCall(c)
    \/ Start \/ Dr_Tick \/ FlushStep
    \/ \E t \in TaskIds : SendAttempt(t)

SpecLimit == InitLimit /\ [][NextLimit]_vars

\* Opportunistic flushes only: a running drainer without ticks, writers
\* that make one call each, a Sender that succeeds.
InitOpp ==
    InitWith([NoOptions EXCEPT !.flushSize = Option(FlushThreshold)],
             [sender |-> Succeeds, ops |-> 1, kinds |-> ProxyKinds,
              maxBytes |-> FlushThreshold - 1, interval |-> 0,
              starts |-> 1])

NextOpp ==
    \/ \E w \in Writers : WriteCall(w) \/ FlushExcess(w)
    \/ Start \/ Dr_Len \/ FlushStep
    \/ \E t \in TaskIds : SendAttempt(t)

SpecOpp == InitOpp /\ [][NextOpp]_vars

\* Failing sends without cancellation: ticks and Flush calls, every retry
\* limit, both kinds of backoff, a Sender that may fail.
InitFail ==
    \E r \in 0..MaxRetryLimit, b \in {Option(0), NoOption} :
      InitWith([NoOptions EXCEPT !.retryLimit = Option(r), !.backoff = b],
               [sender |-> AnyOutcome, ops |-> 1, kinds |-> {"Write"},
                maxBytes |-> MaxChunk, interval |-> 1,
              starts |-> 1])

NextFail ==
    \/ \E w \in Writers : WriteCall(w)
    \/ \E c \in Flushers : FlushCall(c)
    \/ Start \/ Dr_Tick \/ FlushStep
    \/ \E t \in TaskIds : SendAttempt(t) \/ Task_BackoffFire(t)

SpecFail == InitFail /\ [][NextFail]_vars

\* Start called more than once, each call with a context of its own that
\* may be cancelled; ticks, a Sender that succeeds.
InitStart ==
    InitWith([NoOptions EXCEPT !.retryLimit = Option(0)],
             [sender |-> Succeeds, ops |-> 1, kinds |-> {"Write"},
              maxBytes |-> MaxChunk, interval |-> 1,
              starts |-> MaxStarts])

NextStart ==
    \/ \E w \in Writers : WriteCall(w)
    \/ Start
    \/ \E k \in 1..MaxStarts : CancelStartOf(k)
    \/ Dr_Done \/ Dr_Tick \/ FlushStep
    \/ \E t \in TaskIds : SendAttempt(t)

SpecStart == InitStart /\ [][NextStart]_vars

\* What the scheduler runs without anybody's decision: the drainer, the
\* send goroutines, the calls already begun.  Start, Flush, the start of
\* a write and a tick are up to the callers and the clock.
ProgressFail ==
    \/ \E w \in Writers : Recv(w) \/ Write(w) \/ Add(w) \/ Close(w) \/ Return(w)
    \/ \E c \in Flushers : Dr_RecvFlush(c) \/ Flush_Reply(c)
    \/ FlushStep
    \/ \E t \in TaskIds : SendAttempt(t) \/ Task_BackoffFire(t)

FairFail == SpecFail /\ WF_vars(ProgressFail)

\* Handles used after their Close: writers take a handle from the chain,
\* write, close, and then call Close or Write on it again; any goroutine
\* may call flush.
InitHandle ==
    InitWith(NoOptions,
             [sender |-> Succeeds, ops |-> 1, kinds |-> {"chain.Writer"},
              maxBytes |-> MaxHandleWrites * MaxChunk, interval |-> 0,
              starts |-> 1])

NextHandle ==
    \/ \E w \in Writers : WriteCall(w) \/ CloseAgain(w) \/ WriteClosed(w)
    \/ ChainFlushLock \/ ChainFlushAcquire \/ ChainFlushCopy

SpecHandle == InitHandle /\ [][NextHandle]_vars

\* ------------------------------------------------ a PointSet and its callers
\* A proxy that is built and never used, beside the PointSet.
UnusedProxy ==
    InitOutflux(NoOptions,
                [sender |-> Succeeds, ops |-> 0, kinds |-> {}, maxBytes |-> 0,
                 interval |-> 0, starts |-> 0])

FieldNames == {"count", "time_taken", "id"}
Answers == {"accept", "noKey", "noFields", "nothing"}

\* The steps of one caller of the PointSet.
CallerStep(c) ==
    \/ \E id \in Idents : FieldsForID(c, id)
    \/ lookup_RLock(c)
    \/ lookup_Return(c)
    \/ alloc_Lock(c)
    \/ alloc_Acquire(c)
    \/ alloc_Body(c)
    \/ FieldsForID_Return(c)
    \/ \E name \in FieldNames : Field_Add(c, name)
    \/ \E name \in FieldNames : \E new \in 0..MaxValue : Field_Set(c, name, new)

\* A PointSet whose allocator is a PointAllocFunc that accepts or declines
\* each identifier, called from NumCallers goroutines.
InitPointSetFunc ==
    /\ UnusedProxy
    /\ NoField
    /\ NoPoint
    /\ NoEncoder
    /\ \E answer \in [Idents -> Answers] :
         InitPointSet(NewPointSet([kind |-> "func", answer |-> answer]), <<>>)

NextPointSet ==
    \/ \E c \in Callers : CallerStep(c)
    \/ PointSet_WriteTo

SpecPointSet == InitPointSetFunc /\ [][NextPointSet]_vars

\* A PointSet whose allocator is a StaticPointAllocator: any key, Tags nil,
\* empty or populated, Fields nil or a template of one counter holding any
\* value, with or without IdentifierTag and IdentifierField.
templateFields == MkMap(MapSet(<<>>, "count", 1))

InitPointSetStatic ==
    /\ UnusedProxy
    /\ NoField
    /\ NoPoint
    /\ NoEncoder
    /\ \E Key \in {"", "http_request"} :
       \E Tags \in {NilMap, MkMap(<<>>),
                    MkMap(MapSet(<<>>, "host", Str("example.local")))} :
       \E IdentifierTag \in {"", "path"} :
       \E IdentifierField \in {"", "id"} :
       \E v \in 0..MaxValue :
       \E Fields \in {NilMap, templateFields} :
         InitPointSet(
           NewPointSet([kind |-> "static", Key |-> Key, Tags |-> Tags,
                        Fields |-> Fields, IdentifierTag |-> IdentifierTag,
                        IdentifierField |-> IdentifierField]),
           IF Fields.isnil THEN <<>>
           ELSE <<newField("Int", v)>>)

SpecStatic == InitPointSetStatic /\ [][NextPointSet]_vars

\* ------------------------------------------------ a field and its adders
\* One Int, Float or Counter, NumAdders goroutines each calling Add once,
\* and a reader sampling the value.
InitField ==
    /\ UnusedProxy
    /\ NoPointSet
    /\ NoPoint
    /\ NoEncoder
    /\ \E kind \in FieldKinds : \E initial \in 0..MaxInitial :
       \E deltas \in [Adders_ -> Deltas] :
         fld = newLoneField(kind, initial, deltas)

NextField ==
    \/ \E a \in Adders_ : Int_Add(a) \/ tryAdd_Load(a) \/ tryAdd_CAS(a)
    \/ Field_sample

SpecField == InitField /\ [][NextField]_vars

\* ------------------------------------------------- a Point and its users
\* The sequences of distinct names: the orders a map iteration can take.
RECURSIVE Orderings(_)
Orderings(S) ==
    IF S = {} THEN {<<>>}
    ELSE UNION {{<<n>> \o rest : rest \in Orderings(S \ {n})} : n \in S}

\* A Point made by NewPoint from any tags and any named fields, used by
\* NumPointUsers goroutines that make MaxPointOps calls between them.
InitPoint ==
    /\ UnusedProxy
    /\ NoPointSet
    /\ NoField
    /\ NoEncoder
    /\ \E T \in SUBSET Names : \E F \in SUBSET (Names \ {0}) :
       \E tagEntries \in Orderings(T) : \E fieldEntries \in Orderings(F) :
         point = NewLonePoint(tagEntries, fieldEntries)

NextPoint ==
    \E u \in PointUsers :
      \/ \E op \in ReadOps \cup WriteOps : \E name \in Names : \E value \in 0..1 :
           Point_Call(u, op, name, value)
      \/ Point_Lock(u)
      \/ Point_Write(u)
      \/ Point_RLock(u)
      \/ Compiled_RUnlock(u)
      \/ Point_Read(u)

SpecPoint == InitPoint /\ [][NextPoint]_vars

\* ------------------------------------------------------- the line encoder
\* Maps from any of the names to the given values.
MapsTo(Values) == UNION {[S -> Values] : S \in SUBSET EncNames}

\* Any RawPoint and any Point over the keys, names and values.
Measurements ==
    {RawPoint(key, tags, fields, time) :
        key \in Keys, tags \in MapsTo(TagValues), fields \in MapsTo(FieldValues),
        time \in {0, MaxClock}}
    \cup {EncPoint(key, tags, fields) :
        key \in Keys, tags \in MapsTo(TagValues), fields \in MapsTo(FieldValues)}

\* Destinations: a *bytes.Buffer or another writer, empty or not.
Destinations ==
    {Destination(isBuffer, data) :
        isBuffer \in BOOLEAN, data \in {<<>>, <<LetterA, Newline>>}}

\* One measurement, written up to MaxEncCalls times in any of the ways there
\* are while the clock moves on.
InitEncode ==
    /\ UnusedProxy
    /\ NoPointSet
    /\ NoField
    /\ NoPoint
    /\ \E meas \in Measurements : \E w \in Destinations : enc = NewEncoder(<<meas>>, w)

NextEncode ==
    \/ Clock_Tick
    \/ \E i \in 1..1 : Call_WriteMeasurement(i)
    \/ \E i \in 1..1 : Call_PointWriteTo(i)
    \/ \E i \in 1..1 : Call_CompiledWriteTo(i)
    \/ \E i \in 1..1 : Call_Snapshot(i)
    \/ Call_WriteSnapshot

SpecEncode == InitEncode /\ [][NextEncode]_vars

\* The measurements of a batch: with and without a tag, without fields, with
\* one or two fields, with a field that fails.
BatchFields ==
    {<<>>, [n \in {1} |-> [kind |-> "Int", v |-> 1]],
     [n \in {1, 2} |-> [kind |-> "Bool", v |-> n - 1]],
     [n \in {2} |-> [kind |-> "Bad", v |-> 0]]}
BatchMeasurements ==
    {RawPoint(<<LetterA>>, <<>>, fields, 0) : fields \in BatchFields}
    \cup {EncPoint(<<LetterA, Space>>, [n \in {1} |-> <<LetterA>>], fields) :
             fields \in BatchFields}
Batches == UNION {[1..n -> BatchMeasurements] : n \in 0..MaxBatch}

\* A batch of up to MaxBatch measurements, written with WriteMeasurements.
InitBatch ==
    /\ UnusedProxy
    /\ NoPointSet
    /\ NoField
    /\ NoPoint
    /\ \E ms \in Batches : \E w \in Destinations : enc = NewEncoder(ms, w)

NextBatch ==
    \/ Clock_Tick
    \/ Call_WriteMeasurements

SpecBatch == InitBatch /\ [][NextBatch]_vars

\* Acknowledgements: opportunistic flushes and Flush calls whose context may
\* be cancelled at any time, a Sender that succeeds.
InitAck ==
    InitWith([NoOptions EXCEPT !.flushSize = Option(FlushThreshold),
                               !.retryLimit = Option(0)],
             [sender |-> Succeeds, ops |-> 1, kinds |-> {"Write"},
              maxBytes |-> MaxChunk, interval |-> 0,
              starts |-> 1])

NextAck ==
    \/ Next
    \/ \E c \in Flushers : Flush_Abort(c) \/ Flush_Done(c) \/ CancelFlush(c)

SpecAck == InitAck /\ [][NextAck]_vars

\* ------------------------------------------- calls without a drainer to serve
\* Opportunistic flushes while Start may never be called and the drainer's
\* context may be cancelled: Write, Writer and Transaction calls, a Sender
\* that succeeds.
InitBlock ==
    InitWith([NoOptions EXCEPT !.flushSize = Option(FlushThreshold),
                               !.retryLimit = Option(0)],
             [sender |-> Succeeds, ops |-> 1, kinds |-> ProxyKinds,
              maxBytes |-> FlushThreshold, interval |-> 0, starts |-> 1])

NextBlock ==
    \/ \E w \in Writers : WriteCall(w) \/ FlushExcess(w)
    \/ Start \/ CancelStart \/ Dr_Done
    \/ Dr_Len \/ FlushStep
    \/ \E t \in TaskIds : SendAttempt(t)

SpecBlock == InitBlock /\ [][NextBlock]_vars

\* What runs without anybody's decision: the calls already begun, the
\* drainer once started, the send goroutines.  Whether Start is called,
\* whether its context is cancelled and whether a call begins is up to the
\* program using the proxy.
ProgressBlock ==
    \/ \E w \in Writers : Recv(w) \/ Write(w) \/ Add(w) \/ Close(w) \/ Return(w)
    \/ \E w \in Writers : FlushExcess(w)
    \/ Dr_Done \/ Dr_Len \/ FlushStep
    \/ \E t \in TaskIds : SendAttempt(t)

FairBlock == SpecBlock /\ WF_vars(ProgressBlock)

\* ------------------------------------------ writers, flushes and the drainer
\* newBufferchain(n, cap) for an n that may be below the number of writers:
\* the chain hands out the first n sub-buffers only.
newBufferchainOf(n) ==
    /\ all = [s \in Slots |-> <<>>]
    /\ buffers = [i \in 1..n |-> i]
    /\ sz = 0
    /\ m = [readers |-> 0, writer |-> "none"]

\* Handles of Proxy.Writer, Flush calls and opportunistic flushes over a
\* chain of one sub-buffer or more, a Sender that succeeds,
\* a drainer whose context is never cancelled.
InitContend ==
    /\ \E n \in 1..NumBuffers : newBufferchainOf(n)
    /\ newProxyState([NoOptions EXCEPT !.flushSize = Option(FlushThreshold),
                                      !.retryLimit = Option(0)],
                     [sender |-> Succeeds, ops |-> 1, kinds |-> {"Writer"},
                      maxBytes |-> FlushThreshold, interval |-> 0,
                      starts |-> 1])
    /\ NoDagr

SpecContend == InitContend /\ [][Next]_vars

\* The goroutines run: the calls already begun, Start and the drainer, the
\* send goroutines.  Whether a Write or a Flush begins is up to the caller.
ProgressContend ==
    \/ \E w \in Writers : Recv(w) \/ Write(w) \/ Add(w) \/ Close(w) \/ Return(w)
    \/ \E w \in Writers : FlushExcess(w)
    \/ \E c \in Flushers : Dr_RecvFlush(c) \/ Flush_Reply(c)
    \/ Start \/ Dr_Len \/ FlushStep
    \/ \E t \in TaskIds : SendAttempt(t)

FairContend == SpecContend /\ WF_vars(ProgressContend)

\* ------------------------------------------------ the slots of a taskqueue
\* The taskqueues sendData may find in w.requests: what RequestLimit(n)
\* configures for n around 0, and a requestQueue of positive capacity, the
\* queue a requestLimit option holding one configures (RequestLimit builds
\* none of positive capacity).
Taskqueues ==
    {RequestLimit(n) : n \in 0..2} \cup
    {[kind |-> "requestQueue", cap |-> k] : k \in 1..2}

\* Batches sent at the same time under each taskqueue: ticks and Flush
\* calls, one retry after the default backoff, a Sender that may fail.
InitSlots ==
    /\ newBufferchain
    /\ \E q \in Taskqueues :
         LET o == [NoOptions EXCEPT !.retryLimit = Option(MaxRetryLimit)]
         IN  proxyWith(o,
                       [sender |-> AnyOutcome, ops |-> 1, kinds |-> {"Write"},
                        maxBytes |-> MaxChunk, interval |-> 1, starts |-> 1],
                       [newProxy(o) EXCEPT !.requests = q])
    /\ NoDagr

SpecSlots == InitSlots /\ [][NextFail]_vars


\* ------------------------------------------------------------- claims
\* Every byte in a sub-buffer or a batch, as one sequence.
Buffered == Concat(all, NumBuffers)
Delivered == Concat(drained, Len(drained))

\* C1: under any interleaving of writers (bufferchain.Write or take /
\* Write / Close handles) and flush calls, every byte written is returned
\* by exactly one flush, the first one that acquires the chain lock after
\* the byte's handle was closed: a byte of a handle closed when e flushes
\* had returned is in flush e+1 and in no other, it stays in a sub-buffer
\* until then (none is lost), and bytes of a handle still open are in no
\* flush.
C1_ExactlyOneFlush ==
    /\ \A h \in closedLog : \A i \in 1..Len(h.bytes) :
         LET x == h.bytes[i] IN
           IF h.epoch < Len(drained)
           THEN /\ Occurs(x, drained[h.epoch + 1]) = 1
                /\ Occurs(x, Delivered) = 1
                /\ Occurs(x, Buffered) = 0
           ELSE /\ Occurs(x, Delivered) = 0
                /\ Occurs(x, Buffered) = 1
    /\ \A w \in Writers : \A i \in 1..Len(wr[w].hbytes) :
         wr[w].pc \in {"open", "add"} =>
           /\ Occurs(wr[w].hbytes[i], Delivered) = 0
           /\ Occurs(wr[w].hbytes[i], Buffered) = 1

\* C1's case: a flush has returned the bytes of a closed handle while a
\* later handle's bytes wait for the next flush.
C1_Witness ==
    /\ \E h \in closedLog : h.bytes # <<>> /\ h.epoch = 0 /\ Len(drained) >= 1
    /\ \E h \in closedLog : h.bytes # <<>> /\ h.epoch = Len(drained)

\* C8: the bytes written through one handle between take and Close are
\* one contiguous run, in the order written, of a single batch (or still
\* of a single sub-buffer while no flush has taken them).
C8_HandleContiguous ==
    /\ \A h \in closedLog :
         IF h.epoch < Len(drained)
         THEN IsInfix(h.bytes, drained[h.epoch + 1])
         ELSE IsInfix(h.bytes, all[h.buf])
    /\ \A w \in Writers :
         wr[w].pc \in {"open", "add"} =>
           /\ IsInfix(wr[w].hbytes, all[wr[w].buf])
           /\ \A i \in 1..Len(wr[w].hbytes) :
                Occurs(wr[w].hbytes[i], Delivered) = 0

\* C8's case: a handle with two writes was closed and drained in a batch
\* that also holds another writer's bytes.
C8_Witness ==
    \E h \in closedLog :
      /\ Len(h.bytes) >= 2
      /\ h.epoch < Len(drained)
      /\ \E i \in 1..Len(drained[h.epoch + 1]) :
           drained[h.epoch + 1][i][1] # h.w

\* The data of a send goroutine, and whether its loop has ended.
payload(t) == drained[tasks[t].batch]
Ended(t) == tasks[t].pc \in {"ret", "done"}
FromFlush(t) == tasks[t].req[1] = "F"

\* C2: for every retry limit K >= 0 and every Sender, sendData calls Send
\* at most K+1 times for one batch, and no Send call is made (or waited
\* for) in a loop iteration that began when the context was done.
C2_AtMostKPlusOne ==
    \A t \in Tasks :
      /\ tasks[t].sends <= cfg.retries + 1
      /\ tasks[t].pc \in {"begin", "sending"} => ~tasks[t].iterDone

\* C2's case: with a retry limit K >= 1 the K sends of a batch failed and
\* the next iteration, begun after the cancellation, made none.
C2_Witness ==
    \E t \in Tasks :
      /\ cfg.retries >= 1
      /\ tasks[t].sends = cfg.retries
      /\ tasks[t].iterDone
      /\ tasks[t].end = "ctx"

\* C3 as stated: when the Flush context is cancelled after the swap, the
\* send loop of that batch still ends only by success, a terminal error
\* or retry exhaustion.
C3_SendNotAborted ==
    \A t \in Tasks :
      FromFlush(t) /\ tasks[t].swapLive /\ Ended(t) =>
        tasks[t].end \in {"success", "terminal", "exhausted"}

\* C3, amended: the Flush context is also the context of the batch's
\* send loop.  Cancelling it after the swap does not put the batch back
\* in the buffer chain, but the loop also ends, besides success, a
\* terminal error and exhaustion, when it finds that context done at the
\* head of an iteration or during a backoff; it never ends that way
\* while the context is live.
C3_Amended ==
    \A t \in Tasks : FromFlush(t) =>
      /\ \A i \in 1..Len(payload(t)) : Occurs(payload(t)[i], Buffered) = 0
      /\ Ended(t) =>
           \/ tasks[t].end \in {"success", "terminal", "exhausted"}
           \/ tasks[t].end \in {"ctx", "ctxbackoff"} /\ ctxDone(tasks[t].ctx)
      /\ tasks[t].end = "exhausted" => tasks[t].sends = cfg.retries + 1

\* C3's case: a batch swapped while the Flush context was live, whose
\* loop ended for the cancellation after a failed send, with retries left.
C3_Witness ==
    \E t \in Tasks :
      /\ FromFlush(t) /\ tasks[t].swapLive /\ Ended(t)
      /\ tasks[t].end \in {"ctx", "ctxbackoff"}
      /\ tasks[t].sends >= 1
      /\ tasks[t].sends <= cfg.retries

\* C4: the batch of the shutdown flush is sent under a context that is
\* not cancelled before the shutdown send has run: its context ends only
\* by the expiry of the timeout.
C4_ShutdownContextLive ==
    \A t \in Tasks :
      tasks[t].ctx = shutdownContext /\ ~Ended(t) =>
        ctx[tasks[t].ctx] # "Canceled"

\* C5: with RequestLimit(M), M > 0, at most M Send calls are in progress.
InProgress == {t \in Tasks : tasks[t].pc = "sending"}
C5_AtMostMSends ==
    opts.requestLimit.set /\ opts.requestLimit.n > 0 =>
      Cardinality(InProgress) <= opts.requestLimit.n

\* C6: with RequestLimit(M), M <= 0, no send attempt ever blocks waiting
\* for a request slot.
C6_NeverBlocks ==
    opts.requestLimit.set /\ opts.requestLimit.n <= 0 =>
      \A t \in Tasks : tasks[t].pc = "begin" => beginReady

\* The bytes written so far by the writers 1..n, and the writers that have
\* made or begun a call.
RECURSIVE WrittenBy(_)
WrittenBy(n) == IF n = 0 THEN 0 ELSE WrittenBy(n - 1) + wr[n].written
TotalWritten == WrittenBy(NumWriters)
Active == {w \in Writers : wr[w].pc # "idle" \/ wr[w].ops > 0}
Finished(w) == wr[w].pc = "idle" /\ wr[w].ops = env.ops

C9_DeclinedBelowCapacity ==
    [][(dr.pc = "len" /\ dr'.pc # "len" /\ dr.op.capacity >= 0
          /\ bufferchain_Len < dr.op.capacity) =>
         /\ all' = all /\ buffers' = buffers /\ sz' = sz /\ m' = m
         /\ drained' = drained
         /\ tasks' = tasks
         /\ errch' = [errch EXCEPT ![dr.op.req] = Append(@, Nil)]
         /\ dr'.pc = "select"]_vars

\* C9's case: the drainer has declined an op while bytes were buffered.
C9_Witness ==
    /\ dr.declined >= 1
    /\ Buffered # <<>>
    /\ bufferchain_Len > 0

\* C10 as stated: after a Send error with retry = false no further
\* attempt is made for the batch, and the Flush call that was waiting on
\* the batch returns that error.
C10_FlushReturnsSendError ==
    \A t \in Tasks :
      tasks[t].err # Nil /\ ~tasks[t].lastRetry =>
        /\ Ended(t)
        /\ \A c \in Flushers :
             tasks[t].req = FlusherReq(c) /\ tasks[t].waited
               /\ fl[c].pc = "done" => fl[c].result = tasks[t].err

\* C10, amended: after a Send error with retry = false no further attempt
\* is made for the batch, whatever is left of the retry budget, and the
\* Flush call of that batch returns that error or, when its own context
\* is done, possibly that context's error instead.
C10_Amended ==
    \A t \in Tasks :
      tasks[t].err # Nil /\ ~tasks[t].lastRetry =>
        /\ Ended(t)
        /\ tasks[t].end = "terminal"
        /\ tasks[t].sends = tasks[t].i + 1
        /\ \A c \in Flushers :
             tasks[t].req = FlusherReq(c) /\ fl[c].pc = "done" =>
               \/ fl[c].result = tasks[t].err
               \/ /\ ctxDone(FlushCtx(c))
                  /\ fl[c].result = ctxErr(FlushCtx(c))

\* C10's case: the first Send failed with retry = false while retries
\* were left, none followed, and the Flush call returned the Sender's
\* error.
C10_Witness ==
    \E t \in Tasks : \E c \in Flushers :
      /\ tasks[t].req = FlusherReq(c)
      /\ tasks[t].err # Nil /\ tasks[t].err # Canceled
      /\ ~tasks[t].lastRetry
      /\ tasks[t].i < cfg.retries
      /\ tasks[t].waited
      /\ fl[c].pc = "done"
      /\ fl[c].result = tasks[t].err

\* C11: when all K+1 attempts for a batch have failed with retry = true
\* and no context is cancelled, the loop ends with the error of the last
\* attempt, the Flush call of that batch returns that error, and the
\* batch is dropped: none of its bytes is in a sub-buffer or in any other
\* batch.
C11_ExhaustedDropped ==
    \A t \in Tasks :
      tasks[t].end = "exhausted" =>
        /\ tasks[t].sends = cfg.retries + 1
        /\ tasks[t].err = SendErr(cfg.retries)
        /\ \A i \in 1..Len(payload(t)) :
             /\ Occurs(payload(t)[i], Buffered) = 0
             /\ Occurs(payload(t)[i], Delivered) = 1
        /\ \A c \in Flushers :
             tasks[t].req = FlusherReq(c) /\ fl[c].pc = "done" =>
               fl[c].result = tasks[t].err

\* C11's case: with K >= 1 the K+1 sends of a Flush call's batch all
\* failed, Flush returned the last error, and a later batch was drained.
C11_Witness ==
    \E t \in Tasks : \E c \in Flushers :
      /\ cfg.retries >= 1
      /\ tasks[t].end = "exhausted"
      /\ tasks[t].req = FlusherReq(c)
      /\ fl[c].pc = "done"
      /\ fl[c].result = SendErr(cfg.retries)
      /\ Len(drained) > tasks[t].batch

\* C12: when Send has failed with retry = true on the first j attempts
\* of a batch, j <= K, and then returns nil, with no context cancelled,
\* the loop ends there: Send was called exactly j+1 times for the batch
\* and the Flush call of the batch returns nil.
C12_SuccessAfterFailures ==
    \A t \in Tasks :
      tasks[t].sends >= 1 /\ tasks[t].pc # "sending" /\ tasks[t].err = Nil =>
        /\ Ended(t)
        /\ tasks[t].end = "success"
        /\ tasks[t].i <= cfg.retries
        /\ tasks[t].sends = tasks[t].i + 1
        /\ \A c \in Flushers :
             tasks[t].req = FlusherReq(c) /\ fl[c].pc = "done" =>
               fl[c].result = Nil

\* C12's case: the batch of a Flush call failed once or more, then was
\* sent, and Flush returned nil.
C12_Witness ==
    \E t \in Tasks : \E c \in Flushers :
      /\ tasks[t].req = FlusherReq(c)
      /\ tasks[t].end = "success"
      /\ tasks[t].i >= 1
      /\ tasks[t].sends = tasks[t].i + 1
      /\ fl[c].pc = "done"
      /\ fl[c].result = Nil

\* The context of Flush call c was cancelled while the send loop of its
\* batch t was waiting in its backoff.
CancelledInBackoff(t, c) ==
    /\ tasks[t].req = FlusherReq(c)
    /\ cancelLog[FlushCtx(c)] # <<>>
    /\ t \in DOMAIN cancelLog[FlushCtx(c)][1]
    /\ cancelLog[FlushCtx(c)][1][t].pc = "backoff"
SendsAtCancel(t, c) == cancelLog[FlushCtx(c)][1][t].sends

\* C13 as stated: when the Flush context is cancelled while the retry
\* loop waits in its backoff, no Send call starts after the cancellation
\* and Flush returns the context's cancellation error.
C13_FlushReturnsCanceled ==
    \A t \in Tasks : \A c \in Flushers :
      CancelledInBackoff(t, c) =>
        /\ tasks[t].sends = SendsAtCancel(t, c)
        /\ fl[c].pc = "done" => fl[c].result = Canceled

\* C13, amended: when the Flush context is cancelled while the retry loop
\* waits in its backoff, no Send call starts after the cancellation: the
\* loop ends for the context, or for exhaustion when that backoff
\* followed the last attempt.  Flush returns the context's cancellation
\* error or, when the loop ended with the last Send's error (the done
\* case of the backoff, exhaustion) and the reply reached Flush first,
\* that error.
C13_Amended ==
    \A t \in Tasks : \A c \in Flushers :
      CancelledInBackoff(t, c) =>
        /\ tasks[t].sends = SendsAtCancel(t, c)
        /\ tasks[t].pc \in {"backoff", "loop", "ret", "done"}
        /\ Ended(t) => tasks[t].end \in {"ctx", "ctxbackoff", "exhausted"}
        /\ tasks[t].end = "exhausted" => tasks[t].sends = cfg.retries + 1
        /\ fl[c].pc = "done" =>
             \/ fl[c].result = Canceled
             \/ /\ tasks[t].end \in {"ctxbackoff", "exhausted"}
                /\ fl[c].result = tasks[t].err
                /\ fl[c].result = SendErr(tasks[t].sends - 1)

\* C13's case: the context was cancelled during the backoff, the loop
\* has ended and Flush has returned.
C13_Witness ==
    \E t \in Tasks : \E c \in Flushers :
      /\ CancelledInBackoff(t, c)
      /\ tasks[t].sends >= 1
      /\ Ended(t)
      /\ fl[c].pc = "done"

\* C14: a Proxy launches its drainer at most once: no step makes a
\* second drainer, and a Start call made after the first launch changes
\* nothing: the drainer keeps its context and its place, and the chain,
\* the flush ops, the send goroutines and the contexts are as before.
C14_StartOnce ==
    [][/\ dr'.launched <= 1
       /\ dr.launched >= 1 /\ dr'.starts # dr.starts =>
            /\ dr'.launched = dr.launched
            /\ dr'.ctx = dr.ctx
            /\ dr'.pc = dr.pc
            /\ dr'.op = dr.op
            /\ dr'.final = dr.final
            /\ UNCHANGED <<chainVars, wr, cfg, flushlock, errch, tasks, ctx, fl,
                           reqheld, histVars>>]_vars

\* C14's case: Start was called twice, the context of the call that
\* launched nothing is cancelled, and the one drainer still runs and has
\* swapped a batch.
C14_Witness ==
    /\ Cardinality(dr.starts) = 2
    /\ dr.launched = 1
    /\ \E k \in dr.starts : StartCtxOf(k) # dr.ctx /\ ctxDone(StartCtxOf(k))
    /\ ~ctxDone(dr.ctx)
    /\ dr.pc = "select"
    /\ Len(drained) >= 1

\* The batches whose send has failed for good.
FailedTasks == {t \in Tasks : tasks[t].end \in {"terminal", "exhausted"}}

\* C15: a failed send (terminal error or retries exhausted) never stops
\* the drainer: the step in which a send fails for good leaves the
\* drainer where it is, the drainer has not exited while its context is
\* live, and a Flush op offered after a failure is still received and
\* processed, so that the Flush call returns.
C15_DrainerSurvives ==
    /\ [][/\ FailedTasks' # FailedTasks => dr' = dr
          /\ ~ctxDone(dr.ctx) => dr'.pc # "exited"]_vars
    /\ \A c \in Flushers :
         (fl[c].pc = "send" /\ dr.launched >= 1 /\ FailedTasks # {})
           ~> (fl[c].pc = "done")

\* C15's case: a batch failed for good, and a Flush call made after that
\* has been received, its batch sent, and has returned.
C15_Witness ==
    \E t \in FailedTasks : \E c \in Flushers : \E u \in Tasks :
      /\ tasks[t].req = NoReq
      /\ tasks[u].req = FlusherReq(c)
      /\ u > t
      /\ fl[c].pc = "done"
      /\ dr.pc = "select"

\* The handles that hold the chain's read lock, and those that hold a
\* sub-buffer.
LockHolders == {w \in Writers : wr[w].pc \in {"recv", "open", "add"}}
SlotHolders == {w \in Writers : wr[w].pc \in {"open", "add", "return"}}

\* C16: a handle releases exactly once: the read lock is held once per
\* handle in use and every sub-buffer is either free, once, or held by
\* one handle; a Close or a write on a closed handle returns the
\* double-close error and changes neither the lock, the free-slot
\* channel, the sub-buffers nor the aggregate counter.
C16_ReleaseOnce ==
    [][/\ m'.readers = Cardinality(LockHolders')
       /\ Len(buffers') + Cardinality(SlotHolders') = NumBuffers
       /\ \A s \in Slots : Occurs(s, buffers') <= 1
       /\ \A w \in Writers :
            wr'[w].late # wr[w].late =>
              /\ wr'[w].late.err = errDoubleClose
              /\ UNCHANGED <<all, buffers, sz, m, drained, closedLog>>]_vars

\* C16's case: a handle that wrote and was closed saw a second Close and
\* then a Write, both refused, while another handle is open and bytes
\* are buffered.
C16_Witness ==
    \E w \in Writers :
      /\ wr[w].written > 0
      /\ wr[w].late = [call |-> "Write", err |-> errDoubleClose]
      /\ \E v \in Writers : wr[v].late.call = "Close" /\ wr[v].written > 0
      /\ bufferchain_Len > 0

\* C17: every call the retry loop makes to the BackoffFunc has
\* 1 <= retry <= maxRetries, maxRetries being the proxy's retry limit.
C17_BackoffArgsInRange ==
    \A t \in Tasks :
      tasks[t].boRetry # 0 =>
        /\ 1 <= tasks[t].boRetry
        /\ tasks[t].boRetry <= cfg.retries

\* The allocator's answer for id; it accepts id with a key and a field, it
\* declines id with an empty key or no fields.
AnswerOf(id) == AllocatePoint(ps.allocator, id, heap)
Accepts(id) ==
    /\ ~AnswerOf(id).panic
    /\ AnswerOf(id).key # ""
    /\ len(AnswerOf(id).fields) > 0
Declines(id) ==
    /\ ~AnswerOf(id).panic
    /\ (AnswerOf(id).key = "" \/ len(AnswerOf(id).fields) = 0)

\* C18: with concurrent FieldsForID calls and no Remove or Clear, at most
\* one point is ever installed per identifier, the allocator is called at
\* most once for an identifier it accepts, and all callers asking for one
\* identifier get the same field instances, those of the stored point.
C18_OnePointPerIdentifier ==
    \A id \in Idents :
      /\ psHist.installs[id] <= 1
      /\ Accepts(id) => psHist.allocCalls[id] <= 1
      /\ \A r1 \in psHist.got : \A r2 \in psHist.got :
           r1.id = id /\ r2.id = id => r1.ret = r2.ret
      /\ \A r \in psHist.got :
           r.id = id /\ ~r.ret.isnil =>
             /\ id \in DOMAIN ps.metrics
             /\ r.ret.kv = ps.metrics[id].fields.kv

\* Two callers raced for one accepted identifier: both missed in lookup,
\* one allocated the point and the other found it under the write lock.
C18_Witness ==
    \E c1 \in Callers : \E c2 \in Callers :
      /\ cl[c1].pc = "done" /\ cl[c1].via = "alloc new"
      /\ cl[c2].pc = "done" /\ cl[c2].via = "alloc found"
      /\ cl[c1].ident = cl[c2].ident
      /\ psHist.allocCalls[cl[c1].ident] = 1

\* C19: an identifier the allocator declines is never in the set, every
\* FieldsForID for it returns nil (and does not panic) after calling the
\* allocator once more, and no output of WriteTo has a line for it.
C19_DeclinedNotStored ==
    \A id \in Idents :
      Declines(id) =>
        /\ id \notin DOMAIN ps.metrics
        /\ \A r \in psHist.got : r.id = id => r.ret.isnil
        /\ \A c \in Callers : cl[c].pc = "panicked" => cl[c].ident # id
        /\ psHist.allocCalls[id] =
             psHist.asked[id]
               + Cardinality({c \in Callers : cl[c].pc = "done" /\ cl[c].ident = id})
        /\ \A i \in DOMAIN psOut : \A line \in psOut[i] : line.ident # id

\* A declined identifier was asked for twice, the allocator was called both
\* times, and the output written afterwards has the accepted identifier's
\* line and no other.
C19_Witness ==
    \E id \in Idents : \E other \in Idents :
      /\ Declines(id)
      /\ Accepts(other)
      /\ psHist.asked[id] >= 2
      /\ psHist.allocCalls[id] >= 2
      /\ psOut # <<>>
      /\ {line.ident : line \in psOut[1]} = {other}

\* The values the fields of the point stored under id hold, and those the
\* fields of the static allocator's template hold.
PointValues(id) ==
    [n \in DOMAIN ps.metrics[id].fields.kv |-> heap[ps.metrics[id].fields.kv[n]].v]
TemplateValues ==
    IF ps.allocator.Fields.isnil THEN <<>>
    ELSE [n \in DOMAIN ps.allocator.Fields.kv |-> heap[ps.allocator.Fields.kv[n]].v]

\* C20: with a StaticPointAllocator, a step that changes a value of one
\* point's fields (Add or Set) changes no value of any other point's fields
\* and no value of the allocator's template Fields.
C20_NoSharedFields ==
    [][\A a \in DOMAIN ps.metrics :
         PointValues(a)' # PointValues(a) =>
           /\ TemplateValues' = TemplateValues
           /\ \A b \in DOMAIN ps.metrics \ {a} : PointValues(b)' = PointValues(b)]_vars

\* Two points of one template hold different counts after an Add or Set on
\* one of them, and the template still holds its own.
C20_Witness ==
    /\ ~ps.allocator.Fields.isnil
    /\ \E a \in DOMAIN ps.metrics : \E b \in DOMAIN ps.metrics :
         /\ a # b
         /\ PointValues(a)["count"] # PointValues(b)["count"]
         /\ PointValues(b)["count"] = TemplateValues["count"]

\* C21: once every Add on an Int, Float or Counter has returned, the value
\* is the initial value plus the sum of the deltas (no update is lost), and
\* every value a reader sampled is the initial value plus the deltas of a
\* prefix of the order in which the adds took effect.
C21_NoLostUpdate ==
    fld.kind # "none" =>
      /\ (\A a \in Adders_ : fld.ad[a].pc = "done") =>
           fld.value = fld.initial + SumSeq([a \in Adders_ |-> fld.ad[a].d])
      /\ \A r \in fld.reads :
           r.v = fld.initial + SumSeq(SubSeq(fld.order, 1, r.n))

\* Two adds on a Float or Counter collided: one of them lost its
\* compare-and-swap and tried again, and all adds have returned, after a
\* reader saw an intermediate value.
C21_Witness ==
    /\ fld.kind \in {"Float", "Counter"}
    /\ \A a \in Adders_ : fld.ad[a].pc = "done" /\ fld.ad[a].d # 0
    /\ \E a \in Adders_ : fld.ad[a].old # fld.initial
    /\ \E r \in fld.reads : r.n = 1

\* C22: no read of a Point's maps and name lists (WriteTo, Tags, Fields,
\* Compiled, MarshalJSON) overlaps a SetTag, SetField, RemoveTag or
\* RemoveField on the point.
C22_ReadsExcludeWrites ==
    point.exists =>
      \A u1 \in PointUsers : \A u2 \in PointUsers :
        ~(point.g[u1].pc = "reading" /\ point.g[u2].pc = "writing")

\* A slice of names is strictly ascending.
StrictlyAscending(slice) ==
    \A i \in 1..Len(slice) : \A j \in 1..Len(slice) : i < j => slice[i] < slice[j]
Elements(slice) == {slice[i] : i \in 1..Len(slice)}

\* C23: after NewPoint and any SetTag, SetField, RemoveTag and RemoveField,
\* the tag name list and the field name list are strictly ascending and
\* hold exactly the keys of the tag map and of the field map.
C23_NameListsSorted ==
    point.exists =>
      /\ StrictlyAscending(point.tags.order)
      /\ Elements(point.tags.order) = DOMAIN point.tags.map
      /\ StrictlyAscending(point.fields.order)
      /\ Elements(point.fields.order) = DOMAIN point.fields.map

\* SetTag with an empty value and SetField with nil have both been called
\* and have finished, and the point still has two tags, one of them with
\* the empty name.
C23_Witness ==
    /\ point.exists
    /\ point.done = {<<"SetTag", "removes">>, <<"SetField", "removes">>}
    /\ \A u \in PointUsers : point.g[u].pc = "idle"
    /\ point.calls = MaxPointOps
    /\ Len(point.tags.order) = 2
    /\ 0 \in DOMAIN point.tags.map
    /\ point.fields.order = <<>>

\* The measurement the latest call was about, and the bytes the call left in
\* the destination after what it held before.
lastMeasurement == enc.ms[enc.last.i]
written == SubSeq(enc.w.data, Len(enc.last.before.data) + 1, Len(enc.w.data))
outcome == [w |-> enc.w, n |-> enc.last.n, err |-> enc.last.err]
hasFailingField(fields) == \E name \in DOMAIN fields : fields[name].kind = "Bad"

\* C24: for every Point with at least one field, writing its compiled form
\* leaves exactly the bytes, the count and the error that Point.WriteTo
\* leaves for the same field values, destination and clock reading.
C24_CompiledSameBytes ==
    (enc.exists /\ enc.last.op = "compiledPoint.WriteTo") =>
      outcome = delivered(enc.last.before,
                          Point_WriteTo(lastMeasurement, getBuffer(enc.last.before),
                                        enc.last.now))

\* A compiled point with a tag and two fields has been written after data
\* the buffer already held.
C24_Witness ==
    /\ enc.exists
    /\ enc.last.op = "compiledPoint.WriteTo"
    /\ enc.last.err = Nil
    /\ Cardinality(DOMAIN lastMeasurement.fields) = 2
    /\ Cardinality(DOMAIN lastMeasurement.tags) >= 1
    /\ enc.last.before.isBuffer
    /\ Len(enc.last.before.data) > 0
    /\ Len(written) = enc.last.n
    /\ enc.last.n > 0

\* C25: the line WriteMeasurement writes for a snapshot of a compiled point
\* carries the clock reading at the moment Snapshot was called.
C25_SnapshotTimeFrozen ==
    (enc.exists /\ enc.last.op = "WriteMeasurement(snapshot)" /\ enc.last.err = Nil) =>
      LET stamp == <<Space>> \o AppendInt(enc.snap.when) \o <<Newline>>
      IN  /\ Len(written) >= Len(stamp)
          /\ SubSeq(written, Len(written) - Len(stamp) + 1, Len(written)) = stamp

\* C26: WriteMeasurement of a measurement with zero fields returns 0 and
\* ErrNoFields, and the destination (a buffer that may hold data, or
\* another writer) is what it was before the call.
C26_NoFieldsWritesNothing ==
    (/\ enc.exists
     /\ enc.last.op = "WriteMeasurement"
     /\ DOMAIN lastMeasurement.fields = {}) =>
      outcome = [w |-> enc.last.before, n |-> 0, err |-> ErrNoFields]

\* A Point with a tag and no fields has been written with WriteMeasurement
\* to a buffer that held data.
C26_Witness ==
    /\ enc.exists
    /\ enc.last.op = "WriteMeasurement"
    /\ lastMeasurement.kind = "point"
    /\ DOMAIN lastMeasurement.fields = {}
    /\ DOMAIN lastMeasurement.tags # {}
    /\ enc.last.before.isBuffer
    /\ Len(enc.last.before.data) > 0
    /\ enc.last.err = ErrNoFields

\* C27: when a field reports an error while WriteMeasurement, Point.WriteTo
\* or a compiled point (a snapshot of one included) serializes a
\* measurement, the call returns that error and the destination is what it
\* was before the call: earlier bytes kept, nothing of the measurement left
\* in the buffer, nothing written downstream.
C27_FieldErrorTruncates ==
    enc.exists =>
      /\ (/\ enc.last.op \in {"WriteMeasurement", "Point.WriteTo", "compiledPoint.WriteTo"}
          /\ hasFailingField(lastMeasurement.fields)) =>
            outcome = [w |-> enc.last.before, n |-> 0, err |-> ErrField]
      /\ (/\ enc.last.op = "WriteMeasurement(snapshot)"
          /\ \E k \in 1..Len(enc.snap.c.fields) : enc.snap.c.fields[k].value.kind = "Bad") =>
            outcome = [w |-> enc.last.before, n |-> 0, err |-> ErrField]

\* A compiled point whose second field fails has been written to a buffer
\* that held data, after its first field wrote its value.
C27_Witness ==
    /\ enc.exists
    /\ enc.last.op = "compiledPoint.WriteTo"
    /\ Len(lastMeasurement.fieldOrder) = 2
    /\ lastMeasurement.fields[lastMeasurement.fieldOrder[1]].kind = "Int"
    /\ lastMeasurement.fields[lastMeasurement.fieldOrder[2]].kind = "Bad"
    /\ enc.last.before.isBuffer
    /\ Len(enc.last.before.data) > 0
    /\ enc.last.err = ErrField

\* The lines of the measurements of ms that have fields, in order, each as
\* WriteMeasurement writes it on its own.
RECURSIVE linesOf(_, _)
linesOf(ms, now) ==
    IF ms = <<>> THEN <<>>
    ELSE (IF DOMAIN Head(ms).fields = {} THEN <<>>
          ELSE WriteMeasurement(Head(ms), <<>>, now).data) \o linesOf(Tail(ms), now)
someHasFields(ms) == \E k \in 1..Len(ms) : DOMAIN ms[k].fields # {}
someFieldFails(ms) == \E k \in 1..Len(ms) : hasFailingField(ms[k].fields)

\* What C28 says of a call of WriteMeasurements that is to succeed.
batchWritten ==
    /\ enc.last.err = Nil
    /\ enc.last.n = Len(written)
    /\ written = linesOf(enc.ms, enc.last.now)
    /\ SubSeq(enc.w.data, 1, Len(enc.last.before.data)) = enc.last.before.data
    /\ ~someHasFields(enc.ms) => (enc.last.n = 0 /\ enc.w = enc.last.before)

\* C28 as stated: WriteMeasurements over any list of measurements returns
\* success and writes exactly the lines of the measurements that have
\* fields, in argument order, and if none has fields it returns 0 and does
\* not touch the downstream writer.
C28_BatchSucceeds ==
    (enc.exists /\ enc.last.op = "WriteMeasurements") => batchWritten

\* C28, amended: that holds for every list in which no field reports an
\* error; for a list in which one does, WriteMeasurements returns 0 and
\* that error and the destination is what it was before the call.
C28_Amended ==
    (enc.exists /\ enc.last.op = "WriteMeasurements") =>
      IF someFieldFails(enc.ms)
      THEN outcome = [w |-> enc.last.before, n |-> 0, err |-> ErrField]
      ELSE batchWritten

\* Three measurements, the second a Point with a tag and no fields, the
\* others with fields, have been written to a writer that is no buffer.
C28_Witness ==
    /\ enc.exists
    /\ enc.last.op = "WriteMeasurements"
    /\ Len(enc.ms) = 3
    /\ DOMAIN enc.ms[1].fields # {}
    /\ enc.ms[2].kind = "point" /\ DOMAIN enc.ms[2].fields = {}
    /\ DOMAIN enc.ms[3].fields # {}
    /\ enc.ms[1] # enc.ms[3]
    /\ ~enc.last.before.isBuffer
    /\ enc.last.err = Nil
    /\ enc.w.writes = 1

\* The number of bytes b in s.
RECURSIVE count(_, _)
count(s, b) ==
    IF s = <<>> THEN 0 ELSE (IF Head(s) = b THEN 1 ELSE 0) + count(Tail(s), b)
ascending(S) == CHOOSE names \in Orderings(S) : StrictlyAscending(names)

\* C29: for a measurement with at least one field, whose fields write
\* without error, WriteMeasurement produces exactly one line: the key, the
\* tags in ascending name order, the fields in ascending name order and the
\* time, with a single newline, at its end.
C29_OneLineSorted ==
    (/\ enc.exists
     /\ enc.last.op = "WriteMeasurement"
     /\ DOMAIN lastMeasurement.fields # {}
     /\ ~hasFailingField(lastMeasurement.fields)) =>
      LET meas == lastMeasurement
          when == IF meas.kind = "raw" /\ meas.time # 0 THEN meas.time ELSE enc.last.now
          head == writeTags(tagEscaper(meas.key), meas.tags, ascending(DOMAIN meas.tags))
          body == writeFields(head \o <<Space>>, meas.fields, ascending(DOMAIN meas.fields))
      IN  /\ enc.last.err = Nil
          /\ written = body.data \o <<Space>> \o AppendInt(when) \o <<Newline>>
          /\ count(written, Newline) = 1
          /\ written[Len(written)] = Newline

\* A writer holds a handle of take(): it has the read lock and has not yet
\* released it in close.
holdsHandle(w) == wr[w].pc \in {"recv", "open", "add"}

\* C30: flush copies and resets the sub-buffers only while no writer handle
\* is open.  The sub-buffers are copied and reset only by the flush that
\* holds the write lock; it gets the lock only when no handle is open,
\* however many were when it asked for it; and while it holds the lock no
\* take() gets a handle.
C30_FlushExcludesHandles ==
    [][/\ all' # all /\ m.writer = "held" => \A w \in Writers : ~holdsHandle(w)
       /\ m'.writer = "held" => \A w \in Writers : ~holdsHandle(w)'
       /\ \A w \in Writers : (~holdsHandle(w) /\ holdsHandle(w)') => m.writer = "none"
       /\ (\E s \in Slots : Len(all'[s]) < Len(all[s])) => m.writer = "held"]_vars

\* A flush has copied bytes out, and the next flush has asked for the lock
\* and waits while a writer holds a handle it has written through.
C30_Witness ==
    /\ Len(drained) >= 1
    /\ drained[1] # <<>>
    /\ m.writer = "pending"
    /\ \E w \in Writers : wr[w].pc = "open" /\ wr[w].hbytes # <<>>

\* No lockcloser.Write is between its buffer write and its atomic add.
noWriteInProgress == \A w \in Writers : wr[w].pc # "add"

\* The counter is the sum of the sub-buffers' lengths and the number of
\* bytes written and not yet flushed, when no write is in progress.
counterIsSum ==
    noWriteInProgress =>
      /\ bufferchain_Len = Len(Buffered)
      /\ bufferchain_Len = TotalWritten - Len(Delivered)

\* C31: whenever no write call is in progress, the chain's counter (what
\* Len() returns) is the sum of the lengths of the sub-buffers, which is
\* the number of bytes written since the last flush; every flush leaves
\* the counter at 0.
C31_CounterIsSum ==
    [][/\ counterIsSum
       /\ counterIsSum'
       /\ Len(drained') > Len(drained) => bufferchain_Len' = 0]_vars

\* A flush has returned bytes, both sub-buffers hold bytes written since,
\* and every call has returned.
C31_Witness ==
    /\ Len(drained) >= 1
    /\ drained[1] # <<>>
    /\ \A w \in Writers : wr[w].pc = "idle"
    /\ \A s \in Slots : all[s] # <<>>
    /\ bufferchain_Len >= 2

\* The acknowledgements still to come for the op of requester r: the
\* drainer is in swapAndSend with it, or its send goroutine has not
\* replied yet.
pendingAcks(r) ==
    (IF dr.op.req = r THEN 1 ELSE 0)
    + Cardinality({t \in Tasks : tasks[t].req = r /\ tasks[t].pc # "done"})

\* C32: a flush op with a reply channel is acknowledged at most once, by
\* the capacity test, by the empty swap or by the end of its send loop: at
\* any time at most one acknowledgement is either still to come or in the
\* channel, and none is once the caller has received one; so the channel,
\* which has room for one value, has room whenever a reply is delivered,
\* whether or not the caller still waits.  A caller that is not in a flush
\* has nothing to receive.
C32_AckAtMostOnce ==
    /\ \A r \in Requesters : pendingAcks(r) + Len(errch[r]) <= 1
    /\ \A c \in Flushers :
         /\ fl[c].pc \in {"idle", "send"} =>
               pendingAcks(FlusherReq(c)) + Len(errch[FlusherReq(c)]) = 0
         /\ (fl[c].pc = "done" /\ ~ctxDone(FlushCtx(c))) =>
               pendingAcks(FlusherReq(c)) + Len(errch[FlusherReq(c)]) = 0
    /\ \A w \in Writers :
         wr[w].pc # "fx_wait" =>
           pendingAcks(WriterReq(w)) + Len(errch[WriterReq(w)]) = 0

\* A Flush caller gave up on its cancelled context while its batch was
\* being sent, and the send goroutine has since delivered its reply into
\* the channel nobody reads.
C32_Witness ==
    \E c \in Flushers :
      /\ fl[c].pc = "done"
      /\ fl[c].result = Canceled
      /\ Len(errch[FlusherReq(c)]) = 1
      /\ \E t \in Tasks : tasks[t].req = FlusherReq(c) /\ tasks[t].pc = "done"
                            /\ tasks[t].sends = 1

\* C33: with flush size F > 0 and no other flush than the opportunistic
\* one, as long as the bytes written do not exceed F (the buffered total
\* is at most F after every write) no writer offers a flush op, nothing is
\* swapped and nothing is sent.
C33_NoFlushAtThreshold ==
    (cfg.flushSize > 0 /\ TotalWritten <= cfg.flushSize) =>
      /\ \A w \in Writers : wr[w].pc \notin {"fx_send", "fx_wait"}
      /\ drained = <<>>
      /\ tasks = <<>>

\* C34: a StaticPointAllocator with a non-empty IdentifierTag, its Tags nil,
\* empty or populated, answers every AllocatePoint with a tag map that
\* holds the identifier under IdentifierTag and the template's other tags,
\* and the allocator's own Tags stay as they were.
C34_IdentifierTagSet ==
    (ps.allocator.kind = "static" /\ ps.allocator.IdentifierTag # "") =>
      \A id \in Idents :
        psHist.allocCalls[id] > 0 =>
          /\ ~AnswerOf(id).panic
          /\ ~AnswerOf(id).tags.isnil
          /\ ps.allocator.IdentifierTag \in DOMAIN AnswerOf(id).tags.kv
          /\ AnswerOf(id).tags.kv[ps.allocator.IdentifierTag] = id
          /\ \A n \in DOMAIN ps.allocator.Tags.kv \ {ps.allocator.IdentifierTag} :
               /\ n \in DOMAIN AnswerOf(id).tags.kv
               /\ AnswerOf(id).tags.kv[n] = ps.allocator.Tags.kv[n]

\* C35: every Proxy.Write, Close of a handle and Transaction returns: it
\* never blocks for good, whether Start was never called, the drainer is
\* running, or the drainer has shut down.
C35_CallsReturn ==
    \A w \in Writers : (wr[w].pc # "idle") ~> (wr[w].pc = "idle")

\* C36: a Write that triggered an opportunistic flush returns once the
\* drainer has taken its op and swapped the buffers: it waits neither for
\* Sender.Send nor for the retries and backoff of the batch.
C36_ReturnsAfterSwap ==
    \A w \in Writers :
      (wr[w].pc = "fx_wait" /\ wr[w].fxonce) => ENABLED Fx_Wait(w)

\* C37: with a running drainer, writers that hold at most one handle each
\* and close it, and Flush callers, nothing deadlocks: every take() gets a
\* sub-buffer, every op the drainer receives is dealt with and the chain
\* lock it took is released, and every call returns; also with more
\* writers than sub-buffers while a flush waits for the chain lock and
\* while over-threshold writers wait for flushlock.
C37_NoDeadlock ==
    /\ \A w \in Writers : (wr[w].pc = "recv") ~> (wr[w].pc = "open")
    /\ \A w \in Writers : (wr[w].pc # "idle") ~> (wr[w].pc = "idle")
    /\ \A c \in Flushers : (fl[c].pc = "send") ~> (fl[c].pc = "done")
    /\ (dr.op # NoOp) ~> (dr.op = NoOp)
    /\ (m.writer # "none") ~> (m.writer = "none")

\* Both writers are in take() over a chain of one sub-buffer, one holding
\* it and the other waiting for it, while the drainer's flush for a Flush
\* call waits for the chain lock.
C37_Witness ==
    /\ buffers = <<>>
    /\ \E w1 \in Writers : \E w2 \in Writers :
         wr[w1].pc = "open" /\ wr[w2].pc = "recv"
    /\ m.writer = "pending"
    /\ dr.op.req \in {FlusherReq(c) : c \in Flushers}

\* C38: batches reach the Sender in the order they were swapped out: the
\* first Send of a batch swapped later never starts before the first Send
\* of a batch swapped earlier (tasks holds the batches in swap order).
C38_SendsInSwapOrder ==
    \A t1 \in Tasks : \A t2 \in Tasks :
      (t1 < t2 /\ tasks[t2].sends >= 1) =>
        \/ tasks[t1].sends >= 1
        \/ tasks[t1].pc \in {"ret", "done"}

\* The over-threshold writer w is between its flushlock.Lock() and the
\* drainer's swapped() for its op (or its own return under the lock).
awaitsSwap(w) ==
    \/ wr[w].pc \in {"fx_len2", "fx_send"}
    \/ wr[w].pc = "fx_wait" /\ ~wr[w].fxonce

\* C39: flushlock is held by an over-threshold writer only until the
\* drainer has swapped the buffers for its op or declined it, or until the
\* writer found the buffer shrunk; it is released once on each of these
\* paths, never the lock of another holder, and it is never held by the
\* writer whose batch is being sent.
C39_FlushLockUntilSwap ==
    /\ \A w \in Writers : flushlock = w <=> awaitsSwap(w)
    /\ \A w \in Writers :
         (wr[w].pc = "fx_wait" /\ ~wr[w].fxonce) => dr.op.req = WriterReq(w)
    /\ \A t \in Tasks :
         (tasks[t].req[1] = "W" /\ tasks[t].pc # "done") =>
           flushlock # tasks[t].req[2]

\* The batch of one writer's opportunistic flush is in Send while another
\* writer holds flushlock and has handed its own op to the drainer.
C39_Witness ==
    \E t \in Tasks : \E w \in Writers :
      /\ tasks[t].pc = "sending"
      /\ tasks[t].req[1] = "W"
      /\ tasks[t].req[2] # w
      /\ flushlock = w
      /\ wr[w].pc = "fx_wait"

\* The attempts between w.requests.begin() and w.requests.end().
inAttempt == {t \in Tasks : tasks[t].pc = "sending"}

\* C40: every send attempt takes one slot of the request limit before it
\* calls Send and gives it back when the attempt returns, successful or
\* not: the slots held are those of the attempts between begin and end,
\* none is held through a backoff wait or after the send loop has ended.
C40_SlotPerAttempt ==
    /\ reqheld <= Cardinality(inAttempt)
    /\ cfg.requests.kind = "requestQueue" =>
         /\ reqheld = Cardinality(inAttempt)
         /\ reqheld <= cfg.requests.cap
    /\ (\A t \in Tasks : tasks[t].pc \in {"backoff", "ret", "done"}) => reqheld = 0

\* Under a requestQueue one batch waits for its backoff after a failed
\* attempt while the attempt of another batch holds the only slot taken.
C40_Witness ==
    /\ cfg.requests.kind = "requestQueue"
    /\ reqheld = 1
    /\ \E t1 \in Tasks : \E t2 \in Tasks :
         /\ tasks[t1].pc = "backoff" /\ tasks[t1].sends = 1
         /\ tasks[t2].pc = "sending"

====
